---- MODULE Spec2Model ----
(***************************************************************************)
(* ClickLocal Mailer: the campaign send loop of the web server (server.js, *)
(* POST /api/send and POST /api/campaign-resume), the unsubscribe          *)
(* endpoint, and the Recipient Store (sheets.js).                          *)
(*                                                                         *)
(* The server is a single-threaded Node process: a handler or a loop runs  *)
(* without interruption from one `await` to the next.  Every action below  *)
(* is one such uninterrupted block.  The wall clock (new Date()), the      *)
(* results of the Mail Transport and of the spreadsheet API are inputs of  *)
(* the environment, drawn with \E where the code reads them.               *)
(*                                                                         *)
(* Email addresses are the numbers 1..NumRecipients; the address k is      *)
(* stored in data row k of every sheet tab, i.e. spreadsheet row k + 1.    *)
(***************************************************************************)
EXTENDS Integers, Sequences, FiniteSets, TLC

\* ------------------------------------------------------------------ bounds
\* Number of addresses in the email list (and rows in each sheet tab).
NumRecipients == 3
\* Number of campaign loops launched (POST /api/send + POST /api/campaign-resume).
MaxLoops == 2
\* Number of disturbances by the environment: transport errors, spreadsheet
\* I/O errors, quiet-hours readings of the clock, unsubscribe requests and
\* process crashes, all together.
MaxFaults == 2
\* Lexemes in an HTML text given to the link wrapper, and times it is applied.
MaxLexemes == 3
MaxPasses == 2

\* ------------------------------------------------------- program constants
QuietStart == 21
QuietEnd == 8
HoursPerDay == 24
MinutesPerHour == 60
DefaultSheet == "email_list_test"
ListSheet == "list_1"
Hours == 0 .. (HoursPerDay - 1)
Emails == 1 .. NumRecipients
Tabs == {DefaultSheet, ListSheet}
Minutes == 0 .. (HoursPerDay * MinutesPerHour - 1)

VARIABLES
  loops,          \* the send loops launched so far (async closures), by launch number
  stateFile,      \* data/campaign-state.json: <<>> (null) or <<CampaignState>>
  logsFile,       \* data/send-logs.json: sequence of LogEntry
  logsWriter,     \* the loop whose saveData wrote logsFile last (0: a request handler)
  listsFile,      \* data/email-lists.json: the one email list
  templatesFile,  \* data/templates.json: sequence of templates
  sheet,          \* the spreadsheet: tab -> data rows (row 1, the header, left out)
  delivered,      \* messages accepted by the Mail Transport, per <<campaignId, address>>
  faults,         \* disturbances used so far
  call            \* a call of one function looked at on its own: its inputs (for
                  \* isQuietHours() the wall clock), whether the call has
                  \* returned, and the value returned (NoCall while the server
                  \* is looked at)

vars == <<loops, stateFile, logsFile, logsWriter, listsFile, templatesFile, sheet,
          delivered, faults, call>>

\* ------------------------------------------------------------- quiet hours
\* Mutant of isQuietHours: the end hour still counts as quiet.
isQuietHoursEndInclusive(hour) == hour >= QuietStart \/ hour <= QuietEnd

\* isQuietHours(), on the hour new Date().getHours() returns.
isQuietHours(hour) == hour >= QuietStart \/ hour < QuietEnd

\* new Date().getHours(), the wall clock given as the minute of the day.
getHours(minute) == minute \div MinutesPerHour

\* No call is looked at.
NoCall == [minute |-> 0 - 1, returned |-> FALSE, quiet |-> FALSE]

\* The wall clock shows this minute of the day; isQuietHours() is not called yet.
ClockAt(minute) == [minute |-> minute, returned |-> FALSE, quiet |-> FALSE]

\* The minutes of a day of 24 hours.
DayMinutes == HoursPerDay * MinutesPerHour

\* The minutes the local clock is set back between a given local time and the
\* next 08:00: none, or an hour when daylight saving ends that night (the hour
\* from 02:00 to 03:00 comes twice), or minus an hour when it begins (02:00 is
\* followed by 03:00).  The night's change is still ahead from 08:00 on and
\* before 02:00; between 02:00 and 03:00 the clock may be in the first of the
\* two passes through that hour.
SetBacks(minute) ==
  IF getHours(minute) >= QuietEnd \/ getHours(minute) < 2
  THEN {0 - MinutesPerHour, 0, MinutesPerHour}
  ELSE IF getHours(minute) < 3 THEN {0, MinutesPerHour}
  ELSE {0}

\* Mutant of getMsUntilQuietHoursEnd: the target is 08:00 of the same day,
\* also in the evening.
getMsUntilEightToday(minute, setBack) ==
  ((QuietEnd * MinutesPerHour - minute) + setBack) * 60 * 1000

\* getMsUntilQuietHoursEnd(): target is 08:00:00.000 local time of today
\* (setHours), of tomorrow when the hour is 8 or more (setDate); the result is
\* the time that elapses until then, target.getTime() - now.getTime(), in ms:
\* the difference of the two local times and the minutes the local clock is
\* set back on the way.  The clock is read to the minute here.
getMsUntilQuietHoursEnd(minute, setBack) ==
  LET days == IF getHours(minute) >= QuietEnd THEN 1 ELSE 0
      target == days * DayMinutes + QuietEnd * MinutesPerHour
  IN  ((target - minute) + setBack) * 60 * 1000

\* The local time of day when `ms` have elapsed from a local time, the clock
\* being set back by setBack minutes on the way.
LocalAfter(minute, ms, setBack) ==
  ((minute + (ms \div (60 * 1000))) - setBack) % DayMinutes

\* The wall clock shows this minute; getMsUntilQuietHoursEnd() is not called yet.
WaitAt(minute, setBack) ==
  [minute |-> minute, setBack |-> setBack, returned |-> FALSE, ms |-> 0]

\* What a call of isQuietHours() can return: the clock shows any hour of the day.
ClockReadings == {isQuietHours(hour) : hour \in Hours}

\* ------------------------------------------------------- Recipient Store
\* getRowsFromSheet: the data rows of a tab as objects, in storage order.
getRowsFromSheet(sh, sheetName) ==
  [k \in 1 .. Len(sh[sheetName]) |->
     [rowIndex     |-> k + 1,
      email        |-> sh[sheetName][k].email,
      sendStatus   |-> sh[sheetName][k].sendStatus,
      sentAt       |-> sh[sheetName][k].sentAt,
      unsubscribed |-> sh[sheetName][k].unsubscribed]]

\* Mutant of IsUnsent: the filter looks at the unsubscribed column only.
IsUnsentIgnoringStatus(r) == r.email # 0 /\ r.unsubscribed = ""

\* The filter of getUnsentFromSheet.
IsUnsent(r) == r.email # 0 /\ r.sendStatus = "" /\ r.sentAt = "" /\ r.unsubscribed = ""

\* getUnsentFromSheet: rows.filter(...) keeps storage order.
getUnsentFromSheet(sh, sheetName) ==
  SelectSeq(getRowsFromSheet(sh, sheetName), IsUnsent)

\* findRowByEmailInSheet / findRowByEmail: the rowIndex of the first row with
\* that address, 0 for null.
findRowByEmailInSheet(sh, sheetName, email) ==
  LET rows == getRowsFromSheet(sh, sheetName)
      hits == {k \in 1 .. Len(rows) : rows[k].email = email}
  IN  IF hits = {} THEN 0
      ELSE rows[CHOOSE k \in hits : \A j \in hits : k <= j].rowIndex

\* updateRowInSheet: columns B and C of the row get the status and a timestamp.
updateRowInSheet(sh, sheetName, rowIndex, status) ==
  [sh EXCEPT ![sheetName][rowIndex - 1].sendStatus = status,
             ![sheetName][rowIndex - 1].sentAt = "ts"]

\* markUnsubscribed: column D of the row in the tab email_list_test.
markUnsubscribed(sh, rowIndex) ==
  [sh EXCEPT ![DefaultSheet][rowIndex - 1].unsubscribed = "ts"]

\* ------------------------------------------------------------ data shapes
\* A template without `content` is what POST/PUT /api/templates store when the
\* request body has none: template.content is then undefined.
NoContent == "undefined"

\* currentIndex is not a field of a new campaignState (undefined until the
\* first pause or successful send).
NoIndex == 0 - 1

\* list?.sheetName || 'email_list_test'
SheetNameOf(list) == IF list.sheetName # "" THEN list.sheetName ELSE DefaultSheet

\* templates.find(t => t.id === templateId): the matching templates, first one first.
FindTemplate(templates, templateId) ==
  SelectSeq(templates, LAMBDA t : t.id = templateId)

\* recipients = allRecipients.filter(e => !e.unsubscribed)
NotUnsubscribed(e) == ~e.unsubscribed

SubscribedOf(list) == SelectSeq(list.emails, NotUnsubscribed)

\* The recipient objects of the start loop carry no rowIndex (0).
StartRecipients(list) ==
  LET es == SubscribedOf(list)
  IN  [k \in 1 .. Len(es) |-> [email |-> es[k].email, rowIndex |-> 0]]

\* Mutant of ResumeRecipients: the resume takes every row of the tab.
ResumeRecipientsFromAllRows(sh, sheetName) ==
  LET rows == getRowsFromSheet(sh, sheetName)
  IN  [k \in 1 .. Len(rows) |-> [email |-> rows[k].email, rowIndex |-> rows[k].rowIndex]]

\* The recipient objects of the resume loop are the pending rows of the tab.
ResumeRecipients(sh, sheetName) ==
  LET rows == getUnsentFromSheet(sh, sheetName)
  IN  [k \in 1 .. Len(rows) |-> [email |-> rows[k].email, rowIndex |-> rows[k].rowIndex]]

\* Whether the address carries the unsubscribed mark of the lists file.
IsUnsubscribed(list, email) ==
  \E k \in 1 .. Len(list.emails) : list.emails[k].email = email /\ list.emails[k].unsubscribed

\* Mutant of CountStatus: the filter forgets the campaignId.
CountStatusOfAnyCampaign(logs, campaignId, status) ==
  Cardinality({k \in 1 .. Len(logs) : logs[k].status = status})

\* logs.filter(l => l.campaignId === campaignId && l.status === status).length
CountStatus(logs, campaignId, status) ==
  Cardinality({k \in 1 .. Len(logs) :
                 logs[k].campaignId = campaignId /\ logs[k].status = status})

\* The render block of the try: it throws a TypeError on a template without content.
RenderThrows(template) == template.content = NoContent

\* Mutant of EntryStatus: a failure leaves the entry as it was created.
EntryStatusLeftPending(result) == IF result = "ok" THEN "sent" ELSE "pending"

\* The status a send result leaves in the log entry.
EntryStatus(result) == IF result = "ok" THEN "sent" ELSE "failed"

\* The status a send result leaves in the sheet row.
RowStatus(result) ==
  IF result = "ok" THEN "SENT"
  ELSE IF result = "error" THEN "FAILED: smtp error"
  ELSE "FAILED: render error"

\* Mutant of MoreRecipients: the loop stops one recipient early.
MoreRecipientsOffByOne(i, n) == i < n - 1

\* Mutant of MoreRecipients: the loop also waits after its last recipient.
MoreRecipientsOrLast(i, n) == i <= n

\* i < recipients.length - 1, with i counted from 1 here.
MoreRecipients(i, n) == i < n

\* No progress event: what a loop has emitted before its first sendSSE.
NoEvent == [type |-> "none", index |-> 0, saved |-> ""]

DeadLoop ==
  [kind |-> "dead", campaignId |-> 0, recipients |-> <<>>, i |-> 0, pc |-> "dead",
   campaignState |-> <<>>, logs |-> <<>>, logEntry |-> <<>>, sheetName |-> "",
   template |-> <<>>, queried |-> <<>>, attempts |-> <<>>, result |-> "",
   checkedQuiet |-> FALSE, toUnsubscribed |-> FALSE, complete |-> <<>>,
   storeErrors |-> {}, waits |-> 0, events |-> <<>>]

\* The closure of a loop at launch: what the handler has computed before the
\* async function starts.
NewLoop(kind, campaignId, recipients, campaignState, logs, sheetName, template, queried) ==
  [kind |-> kind, campaignId |-> campaignId, recipients |-> recipients, i |-> 1,
   pc |-> "launch", campaignState |-> <<campaignState>>, logs |-> logs,
   logEntry |-> <<>>, sheetName |-> sheetName, template |-> <<template>>,
   queried |-> queried, attempts |-> <<>>, result |-> "",
   checkedQuiet |-> FALSE, toUnsubscribed |-> FALSE, complete |-> <<>>,
   storeErrors |-> {}, waits |-> 0, events |-> <<NoEvent>>]

\* The part of the state the loops write.
Now == [loops |-> loops, stateFile |-> stateFile, logsFile |-> logsFile,
        logsWriter |-> logsWriter, sheet |-> sheet, delivered |-> delivered]

Install(s) ==
  /\ loops' = s.loops
  /\ stateFile' = s.stateFile
  /\ logsFile' = s.logsFile
  /\ logsWriter' = s.logsWriter
  /\ sheet' = s.sheet
  /\ delivered' = s.delivered

\* ------------------------------------------------------------ the send loop
\* Op(s, l), with the state s worked out once before Op looks at it.
On(Op(_, _), s, l) == CHOOSE t \in {Op(x, l) : x \in {s}} : TRUE

\* saveData(CAMPAIGN_STATE_FILE, campaignState): the whole object replaces the file.
SaveState(s, l) == [s EXCEPT !.stateFile = s.loops[l].campaignState]

\* sendSSE(type, data) in loop l: the event is on record with the recipient the
\* loop is at (index: i + 1 in the code) and, for "complete", the status the
\* campaign state file holds at that moment.
Emit(s, l, type) ==
  [s EXCEPT !.loops[l].events =
     Append(@, [type |-> type, index |-> s.loops[l].i,
                saved |-> IF type = "complete" /\ s.stateFile # <<>>
                          THEN s.stateFile[1].status ELSE ""])]

\* Loop l is continued after an await: `events` keeps the event emitted last
\* and takes the ones of the continuation after it.
Continued(s, l) ==
  [s EXCEPT !.loops[l].events = <<@[Len(@)]>>]

\* After the for loop: status complete, saved, and the "complete" event with
\* the totals counted from the loop's logs array.
Complete(s, l) ==
  LET L == s.loops[l]
      evt == [campaignId |-> L.campaignId,
              total  |-> Len(L.recipients),
              sent   |-> CountStatus(L.logs, L.campaignId, "sent"),
              failed |-> CountStatus(L.logs, L.campaignId, "failed")]
  IN  Emit(SaveState([s EXCEPT !.loops[l].campaignState[1].status = "complete",
                               !.loops[l].pc = "done",
                               !.loops[l].complete = Append(@, evt)], l),
           l, "complete")

\* Mutant of AppendLog: the entry is put in front of the array (unshift).
AppendLogAtFront(s, l) ==
  LET L == s.loops[l]
      logs == <<L.logEntry[1]>> \o L.logs
      t == [s EXCEPT !.loops[l].logs = logs,
                     !.loops[l].logEntry = <<>>,
                     !.logsFile = logs,
                     !.logsWriter = l]
  IN  IF MoreRecipients(L.i, Len(L.recipients))
      THEN [t EXCEPT !.loops[l].pc = "rwait"]
      ELSE On(Complete, t, l)

\* logs.push(logEntry); saveData(LOGS_FILE, logs); then the rate-limit wait, or
\* the end of the loop after the last recipient.
AppendLog(s, l) ==
  LET L == s.loops[l]
      logs == Append(L.logs, L.logEntry[1])
      t == [s EXCEPT !.loops[l].logs = logs,
                     !.loops[l].logEntry = <<>>,
                     !.logsFile = logs,
                     !.logsWriter = l]
  IN  IF MoreRecipients(L.i, Len(L.recipients))
      THEN [t EXCEPT !.loops[l].pc = "rwait"]
      ELSE On(Complete, t, l)

\* Mutant of TemplateInUse: the loop reads the template from the file again for
\* every message (and keeps its own when the file has none).
TemplateOnFile(L) ==
  IF FindTemplate(templatesFile, "tpl") # <<>>
  THEN FindTemplate(templatesFile, "tpl")[1]
  ELSE L.template[1]

\* `template` in the loop: the object the handler found in the templates file
\* as it parsed it, which the closure keeps.
TemplateInUse(L) == L.template[1]

\* The outcome of one attempt, once known: the log entry gets its status, the
\* "sent" or "failed" event is emitted with it, and the attempt is on record,
\* with the template content of its message.
Outcome(s, l, result) ==
  LET L == s.loops[l]
  IN  Emit([s EXCEPT !.loops[l].logEntry[1].status = EntryStatus(result),
                     !.loops[l].result = result,
                     !.loops[l].attempts =
                        Append(L.attempts, [to |-> L.recipients[L.i].email, result |-> result,
                                            content |-> TemplateInUse(L).content])],
           l, EntryStatus(result))

\* Mutant of Thrown: the exception leaves the loop (no catch), which ends there.
ThrownOutOfLoop(s, l) ==
  [Outcome(s, l, "throw") EXCEPT !.loops[l].pc = "dead"]

\* catch (err): the entry is failed; the start loop then records FAILED in the
\* sheet (awaited), the resume loop goes straight on to the log.
Thrown(s, l) ==
  LET t == Outcome(s, l, "throw")
  IN  IF s.loops[l].kind = "send"
      THEN [t EXCEPT !.loops[l].pc = "store"]
      ELSE On(AppendLog, t, l)

\* From the "sending" event to the call of sendEmail: the log entry is created
\* pending, the message is rendered, the transport is called.
Attempt(s, l) ==
  LET L == s.loops[l]
      entry == [id |-> <<l, L.i>>, campaignId |-> L.campaignId,
                email |-> L.recipients[L.i].email, status |-> "pending"]
      t == [Emit(s, l, "sending") EXCEPT !.loops[l].logEntry = <<entry>>]
  IN  IF RenderThrows(TemplateInUse(L))
      THEN On(Thrown, t, l)
      ELSE [t EXCEPT !.loops[l].pc = "sending",
                     !.loops[l].toUnsubscribed =
                        IsUnsubscribed(listsFile, L.recipients[L.i].email)]

\* if (isQuietHours()) { ... }: the "paused" event, the state saved as
\* paused_quiet_hours (the start loop also sets currentIndex = i), then the wait.
Pause(s, l) ==
  LET L == s.loops[l]
      cs == IF L.kind = "send"
            THEN [L.campaignState[1] EXCEPT !.status = "paused_quiet_hours",
                                            !.currentIndex = L.i - 1]
            ELSE [L.campaignState[1] EXCEPT !.status = "paused_quiet_hours"]
  IN  SaveState([Emit(s, l, "paused") EXCEPT !.loops[l].campaignState = <<cs>>,
                                            !.loops[l].pc = "qwait"], l)

\* Mutant of AfterPause: no "resumed" event is emitted after the wait.
AfterPauseSilent(s, l) ==
  On(Attempt, SaveState([s EXCEPT !.loops[l].campaignState[1].status = "running"], l), l)

\* After the wait: the "resumed" event, the state saved as running, and on to
\* the send without another look at the clock.
AfterPause(s, l) ==
  On(Attempt,
     SaveState([Emit(s, l, "resumed") EXCEPT !.loops[l].campaignState[1].status = "running"], l),
     l)

\* The head of one iteration, for (...; i < recipients.length; ...); `quiet` is
\* what isQuietHours() returns there.
Iterate(s, l, quiet) ==
  LET L == s.loops[l]
      t == [s EXCEPT !.loops[l].checkedQuiet = quiet]
  IN  IF L.i > Len(L.recipients) THEN On(Complete, s, l)
      ELSE IF quiet THEN On(Pause, t, l)
      ELSE On(Attempt, t, l)

\* The result of sendEmail arrives: the entry is sent or failed; on success the
\* start loop (not the resume loop) pushes the address to sentEmails, sets
\* currentIndex and saves the state.  Then the sheet update is awaited.
SendReturned(s, l, result) ==
  LET L == s.loops[l]
      t == Outcome(s, l, result)
      u == IF result = "ok"
           THEN [t EXCEPT !.delivered[<<L.campaignId, L.recipients[L.i].email>>] = @ + 1]
           ELSE t
      v == IF result = "ok" /\ L.kind = "send"
           THEN SaveState([u EXCEPT !.loops[l].campaignState[1].sentEmails =
                                        Append(@, L.recipients[L.i].email),
                                    !.loops[l].campaignState[1].currentIndex = L.i], l)
           ELSE u
  IN  [v EXCEPT !.loops[l].pc = "store"]

\* The row the loop updates: the start loop looks the address up in the tab,
\* the resume loop uses the rowIndex of its recipient object.
TargetRow(s, l) ==
  LET L == s.loops[l]
  IN  IF L.kind = "send"
      THEN findRowByEmailInSheet(s.sheet, L.sheetName, L.recipients[L.i].email)
      ELSE L.recipients[L.i].rowIndex

\* The awaited sheet update returns (done, or failed with an I/O error that
\* the inner try/catch logs: storeErrors keeps the recipients it happened for),
\* then the log entry is appended.
StoreReturned(s, l, ioOk) ==
  LET L == s.loops[l]
      row == TargetRow(s, l)
      t == IF ~ioOk
           THEN [s EXCEPT !.loops[l].storeErrors = @ \cup {L.i}]
           ELSE IF row # 0
           THEN [s EXCEPT !.sheet = updateRowInSheet(@, L.sheetName, row, RowStatus(L.result))]
           ELSE s
  IN  On(AppendLog, t, l)

\* ------------------------------------------------------------------- state
\* One email list exists (POST /api/lists), with its own sheet tab or, when the
\* tab could not be created, none (sheetName null, here ""); one template
\* exists, with or without content.  Both sheet tabs hold the list's addresses
\* with empty status columns.  No campaign was started yet.
BlankRows ==
  [k \in 1 .. NumRecipients |->
     [email |-> k, sendStatus |-> "", sentAt |-> "", unsubscribed |-> ""]]

Fresh ==
  /\ loops = <<>>
  /\ stateFile = <<>>
  /\ logsFile = <<>>
  /\ logsWriter = 0
  /\ listsFile \in
       {[id |-> "list", sheetName |-> sn,
         emails |-> [k \in 1 .. NumRecipients |-> [email |-> k, unsubscribed |-> FALSE]]] :
          sn \in {"", ListSheet}}
  /\ templatesFile \in {<<[id |-> "tpl", content |-> c, updatedAt |-> 0]>> :
                          c \in {"body", NoContent}}
  /\ sheet = [tab \in Tabs |-> BlankRows]
  /\ delivered = [p \in (1 .. MaxLoops) \X Emails |-> 0]
  /\ faults = 0

\* The server after its start on these files.
Init == Fresh /\ call = NoCall

\* The disturbances a step of loop l used: a quiet-hours reading that paused it.
PausedBy(t, l) == IF t.loops[l].pc = "qwait" THEN 1 ELSE 0

\* ------------------------------------------------------- request handlers
\* What a handler leaves behind: the state after it, and its response.
Reply(s, message) == [next |-> s, reply |-> message]

\* The lists file holds, beside the mailing list, a list created with no
\* addresses and no sheet tab of its own.
EmptyList == [id |-> "empty", sheetName |-> "", emails |-> <<>>]

\* req.body.listId: a list of the file, an id no list has, or none at all.
NoList == ""
ListIds == {"list", "empty", "gone", NoList}

\* req.body.templateId: the template of the file, or an id no template has.
TemplateIds == {"tpl", "gone"}

\* lists.find(l => l.id === listId): the matching lists, first one first.
FindList(listId) == SelectSeq(<<listsFile, EmptyList>>, LAMBDA x : x.id = listId)

\* POST /api/send {templateId, listId}: the template is looked up, the
\* recipients are the list's addresses not marked unsubscribed, the SMTP
\* connection is verified (`connected`); then the campaign state is created
\* and saved, and the loop starts: it runs to its first await inside the
\* handler (`quiet` is what its first isQuietHours() returns).
PostSend(s, templateId, listId, connected, quiet) ==
  LET found == FindTemplate(templatesFile, templateId)
      lists == FindList(listId)
      l == Len(s.loops) + 1
      recipients == StartRecipients(lists[1])
      sheetName == SheetNameOf(lists[1])
      campaignState ==
        [campaignId |-> l, templateId |-> templateId, sheetName |-> sheetName,
         totalRecipients |-> Len(recipients), sentEmails |-> <<>>,
         currentIndex |-> NoIndex, status |-> "running"]
      launched == [s EXCEPT !.loops = Append(@,
                      NewLoop("send", l, recipients, campaignState, s.logsFile,
                              sheetName, found[1], <<>>))]
  IN  IF Len(found) = 0 THEN Reply(s, "Template not found")
      ELSE IF listId = NoList THEN Reply(s, "No recipients specified")
      ELSE IF Len(lists) = 0 THEN Reply(s, "Email list not found")
      ELSE IF ~connected THEN Reply(s, "SMTP connection failed")
      ELSE Reply(On(LAMBDA x, k : Iterate(x, k, quiet), SaveState(launched, l), l), "Campaign started")

\* Mutant of NoCampaign: only a missing state is refused.
NoCampaignUnlessMissing(s) == Len(s.stateFile) = 0

\* !state || state.status === 'complete'
NoCampaign(s) == Len(s.stateFile) = 0 \/ s.stateFile[1].status = "complete"

\* Mutant of RefusedInQuietHours: the refusal is left to the loop's own check.
NeverRefusedInQuietHours(quiet) == FALSE

\* if (isQuietHours()) return ... 'Cannot resume during quiet hours ...'
RefusedInQuietHours(quiet) == quiet

\* POST /api/campaign-resume: refused when no state is saved or the saved
\* status is complete, then during quiet hours (`quiet`), then when the
\* template is gone or the sheet cannot be read (`readOk`); with no unsent row
\* the state is marked complete; else the SMTP connection is verified
\* (`connected`), the loaded state is saved as running and the loop starts,
\* under the saved campaignId and with the logs file as loaded now.
PostCampaignResume(s, quiet, readOk, connected) ==
  LET state == s.stateFile[1]
      found == FindTemplate(templatesFile, state.templateId)
      l == Len(s.loops) + 1
      sheetName == IF state.sheetName # "" THEN state.sheetName ELSE DefaultSheet
      recipients == ResumeRecipients(s.sheet, sheetName)
      launched == [s EXCEPT !.loops = Append(@,
                      NewLoop("resume", state.campaignId, recipients,
                              [state EXCEPT !.status = "running"], s.logsFile,
                              sheetName, found[1],
                              getRowsFromSheet(s.sheet, sheetName)))]
  IN  IF NoCampaign(s) THEN Reply(s, "No campaign to resume")
      ELSE IF RefusedInQuietHours(quiet) THEN Reply(s, "Cannot resume during quiet hours")
      ELSE IF Len(found) = 0 THEN Reply(s, "Template not found")
      ELSE IF ~readOk THEN Reply(s, "Failed to read from Google Sheets")
      ELSE IF Len(recipients) = 0
      THEN Reply([s EXCEPT !.stateFile = <<[state EXCEPT !.status = "complete"]>>],
                 "All emails already sent")
      ELSE IF ~connected THEN Reply(s, "SMTP connection failed")
      ELSE Reply(On(LAMBDA x, k : Iterate(x, k, quiet), SaveState(launched, l), l), "Resuming campaign")

\* ---------------------------------------------------------------- actions
\* POST /api/send for the mailing list or the empty list, accepted.
Start ==
  \E quiet \in ClockReadings, listId \in ListIds :
    LET r == PostSend(Now, "tpl", listId, TRUE, quiet)
        l == Len(loops) + 1
    IN  /\ Len(loops) < MaxLoops
        /\ r.reply = "Campaign started"
        /\ faults + PausedBy(r.next, l) <= MaxFaults
        /\ Install(r.next)
        /\ faults' = faults + PausedBy(r.next, l)
        /\ UNCHANGED <<listsFile, templatesFile, call>>

\* POST /api/campaign-resume with recipients left, accepted.
Resume ==
  \E quiet \in ClockReadings :
    LET r == PostCampaignResume(Now, quiet, TRUE, TRUE)
    IN  /\ Len(loops) < MaxLoops
        /\ r.reply = "Resuming campaign"
        /\ Install(r.next)
        /\ UNCHANGED <<listsFile, templatesFile, faults, call>>

\* POST /api/campaign-resume with no unsent row: the state is marked complete
\* and saved; no loop starts.
ResumeNothing ==
  \E quiet \in ClockReadings :
    LET r == PostCampaignResume(Now, quiet, TRUE, TRUE)
    IN  /\ r.reply = "All emails already sent"
        /\ Install(r.next)
        /\ UNCHANGED <<listsFile, templatesFile, faults, call>>

\* The quiet-hours timer of loop l fires.
QuietElapsed(l) ==
  /\ loops[l].pc = "qwait"
  /\ \E t \in {On(AfterPause, Continued(Now, l), l)} : Install(t)
  /\ UNCHANGED <<listsFile, templatesFile, faults, call>>

\* sendEmail returns to loop l: {success: true} or {success: false, error}.
SendReturn(l) ==
  \E result \in {"ok", "error"} :
    /\ loops[l].pc = "sending"
    /\ result = "error" => faults < MaxFaults
    /\ \E t \in {On(LAMBDA x, k : SendReturned(x, k, result), Continued(Now, l), l)} :
         Install(t)
    /\ faults' = faults + (IF result = "error" THEN 1 ELSE 0)
    /\ UNCHANGED <<listsFile, templatesFile, call>>

\* The sheet lookup and update of loop l return, or throw an I/O error.
StoreReturn(l) ==
  \E ioOk \in BOOLEAN :
    /\ loops[l].pc = "store"
    /\ ~ioOk => faults < MaxFaults
    /\ \E t \in {On(LAMBDA x, k : StoreReturned(x, k, ioOk), Continued(Now, l), l)} :
         Install(t)
    /\ faults' = faults + (IF ioOk THEN 0 ELSE 1)
    /\ UNCHANGED <<listsFile, templatesFile, call>>

\* The rate-limit timer of loop l fires (one more wait has elapsed): i++, and
\* the next iteration begins.
RateElapsed(l) ==
  /\ loops[l].pc = "rwait"
  /\ \E quiet \in ClockReadings :
       \E t \in {On(LAMBDA x, k : Iterate(x, k, quiet),
                     [Continued(Now, l) EXCEPT !.loops[l].i = @ + 1,
                                               !.loops[l].waits = @ + 1], l)} :
         /\ faults + PausedBy(t, l) <= MaxFaults
         /\ Install(t)
         /\ faults' = faults + PausedBy(t, l)
         /\ UNCHANGED <<listsFile, templatesFile, call>>

\* GET /api/unsubscribe/:email for an address of the list: the address is
\* marked in the lists file, an unsubscribe entry is added to the logs file,
\* and column D of its row in the tab email_list_test is set, unless the
\* spreadsheet call fails.
Unsubscribe(email) ==
  \E ioOk \in BOOLEAN :
    LET cost == IF ioOk THEN 1 ELSE 2
        row == findRowByEmailInSheet(sheet, DefaultSheet, email)
    IN  /\ faults + cost <= MaxFaults
        /\ listsFile' =
             [listsFile EXCEPT !.emails =
                [k \in 1 .. Len(@) |->
                   IF @[k].email = email THEN [@[k] EXCEPT !.unsubscribed = TRUE] ELSE @[k]]]
        /\ logsFile' = Append(logsFile,
                              [id |-> <<0, faults>>, campaignId |-> 0, email |-> email,
                               status |-> "unsubscribed"])
        /\ logsWriter' = 0
        /\ sheet' = IF ioOk /\ row # 0 THEN markUnsubscribed(sheet, row) ELSE sheet
        /\ faults' = faults + cost
        /\ UNCHANGED <<loops, stateFile, templatesFile, delivered, call>>

\* DELETE /api/templates/:id for the template of the file.
DeleteTemplate ==
  /\ faults < MaxFaults
  /\ templatesFile # <<>>
  /\ templatesFile' = SelectSeq(templatesFile, LAMBDA x : x.id # "tpl")
  /\ faults' = faults + 1
  /\ UNCHANGED <<loops, stateFile, logsFile, logsWriter, listsFile, sheet, delivered,
                 call>>

\* The time of day as templates record it (updatedAt): counted in the attempts
\* the loops have made so far.
AttemptsSoFar ==
  LET RECURSIVE Sum(_)
      Sum(l) == IF l = 0 THEN 0 ELSE Len(loops[l].attempts) + Sum(l - 1)
  IN  Sum(Len(loops))

\* PUT /api/templates/:id for the template of the file: the file is read, the
\* template's fields are replaced by those of the request body (a body
\* without content leaves content undefined), and the file is saved.
EditTemplate ==
  \E c \in {"edited", NoContent} :
    /\ faults < MaxFaults
    /\ templatesFile # <<>>
    /\ templatesFile' =
         [k \in 1 .. Len(templatesFile) |->
            IF templatesFile[k].id = "tpl"
            THEN [templatesFile[k] EXCEPT !.content = c, !.updatedAt = AttemptsSoFar]
            ELSE templatesFile[k]]
    /\ faults' = faults + 1
    /\ UNCHANGED <<loops, stateFile, logsFile, logsWriter, listsFile, sheet, delivered,
                   call>>

\* The process dies and is started again: every loop is gone with its closure;
\* the files and the spreadsheet stay.
Crash ==
  /\ faults < MaxFaults
  /\ \E l \in 1 .. Len(loops) : loops[l].pc # "dead"
  /\ loops' = [l \in 1 .. Len(loops) |-> DeadLoop]
  /\ faults' = faults + 1
  /\ UNCHANGED <<stateFile, logsFile, logsWriter, listsFile, templatesFile, sheet,
                 delivered, call>>

\* A request that PostSend or PostCampaignResume refuses leaves every variable
\* as it is: it is a stuttering step.
Next ==
  \/ Start
  \/ Resume
  \/ ResumeNothing
  \/ \E l \in 1 .. Len(loops) : QuietElapsed(l)
  \/ \E l \in 1 .. Len(loops) : SendReturn(l)
  \/ \E l \in 1 .. Len(loops) : StoreReturn(l)
  \/ \E l \in 1 .. Len(loops) : RateElapsed(l)
  \/ \E email \in Emails : Unsubscribe(email)
  \/ DeleteTemplate
  \/ Crash

Spec == Init /\ [][Next]_vars

\* The campaigns while the process stays up: requests that start a loop, and
\* the continuations of the loops.  (The other requests never touch a loop's
\* closure or its position.)
NextAlive ==
  \/ Start
  \/ Resume
  \/ \E l \in 1 .. Len(loops) : QuietElapsed(l)
  \/ \E l \in 1 .. Len(loops) : SendReturn(l)
  \/ \E l \in 1 .. Len(loops) : StoreReturn(l)
  \/ \E l \in 1 .. Len(loops) : RateElapsed(l)

\* The continuation of loop l at the await it is suspended at.
LoopStep(l) ==
  /\ l <= Len(loops)
  /\ (QuietElapsed(l) \/ SendReturn(l) \/ StoreReturn(l) \/ RateElapsed(l))

\* Every timer fires and every awaited call of the transport or the
\* spreadsheet returns or throws: a suspended loop is continued.
LiveSpec ==
  Init /\ [][NextAlive]_vars /\ \A l \in 1 .. MaxLoops : WF_vars(LoopStep(l))

\* The campaigns while templates are edited and deleted.
TemplateNext ==
  \/ NextAlive
  \/ EditTemplate
  \/ DeleteTemplate

TemplateSpec == Init /\ [][TemplateNext]_vars

\* ----------------------------------------------------- the clock alone
\* isQuietHours() called at any minute of the day, on a server that does
\* nothing else.
ClockInit == Fresh /\ call \in {ClockAt(minute) : minute \in Minutes}

\* isQuietHours() is called and returns.
CallIsQuietHours ==
  /\ ~call.returned
  /\ call' = [call EXCEPT !.returned = TRUE,
                           !.quiet = isQuietHours(getHours(call.minute))]
  /\ UNCHANGED <<loops, stateFile, logsFile, logsWriter, listsFile, templatesFile,
                 sheet, delivered, faults>>

\* The next minute begins.
Tick ==
  /\ call.returned
  /\ call' = ClockAt((call.minute + 1) % (HoursPerDay * MinutesPerHour))
  /\ UNCHANGED <<loops, stateFile, logsFile, logsWriter, listsFile, templatesFile,
                 sheet, delivered, faults>>

ClockNext == CallIsQuietHours \/ Tick

ClockSpec == ClockInit /\ [][ClockNext]_vars

\* ------------------------------------------------- the quiet-hours wait
\* getMsUntilQuietHoursEnd() called at any minute of the day, in a night with
\* or without a change of the local clock.
WaitInit ==
  Fresh /\ call \in UNION {{WaitAt(minute, setBack) : setBack \in SetBacks(minute)} :
                            minute \in Minutes}

\* getMsUntilQuietHoursEnd() is called and returns.
CallGetMsUntilQuietHoursEnd ==
  /\ ~call.returned
  /\ call' = [call EXCEPT !.returned = TRUE,
                           !.ms = getMsUntilQuietHoursEnd(call.minute, call.setBack)]
  /\ UNCHANGED <<loops, stateFile, logsFile, logsWriter, listsFile, templatesFile,
                 sheet, delivered, faults>>

\* setTimeout fires after the duration returned: the local clock has moved on
\* by it, less what it was set back.
TimerFires ==
  /\ call.returned
  /\ call' = WaitAt(LocalAfter(call.minute, call.ms, call.setBack), 0)
  /\ UNCHANGED <<loops, stateFile, logsFile, logsWriter, listsFile, templatesFile,
                 sheet, delivered, faults>>

WaitNext == CallGetMsUntilQuietHoursEnd \/ TimerFires

WaitSpec == WaitInit /\ [][WaitNext]_vars

\* ------------------------------------------------------- Mail Transport
\* mailer.js.  `transporter` is the module's variable (null, here "null", until
\* initTransporter() has created the nodemailer transport); `answer` is what
\* the transport does with the call: its promise resolves or rejects.
initTransporter(transporter) == IF transporter # "null" THEN transporter ELSE "created"

\* text: text || stripHtml(html)
NoText == ""
TextOf(html, text) == IF text # NoText THEN text ELSE <<"stripHtml", html>>

\* What a call leaves: how it ended for the caller (returned or thrown), the
\* value, the calls of transport.sendMail made, and the transporter.
Ended(outcome, value, mails, transporter) ==
  [outcome |-> outcome, value |-> <<value>>, mails |-> mails, transporter |-> transporter]

\* verifyConnection(): true when transport.verify() resolves, false from the
\* catch block when it rejects.
verifyConnection(transporter, answer) ==
  IF answer = "resolves"
  THEN Ended("returned", TRUE, <<>>, initTransporter(transporter))
  ELSE Ended("returned", FALSE, <<>>, initTransporter(transporter))

\* Mutant of sendEmail: a rejected sendMail is tried once more before the
\* failure is reported.
sendEmailWithRetry(to, html, text, transporter, answer) ==
  LET mailOptions == [to |-> to, html |-> html, text |-> TextOf(html, text)]
  IN  IF answer = "resolves"
      THEN Ended("returned", [success |-> TRUE, messageId |-> <<"id", to>>],
                 <<mailOptions>>, initTransporter(transporter))
      ELSE Ended("returned", [success |-> FALSE, error |-> "smtp error"],
                 <<mailOptions, mailOptions>>, initTransporter(transporter))

\* sendEmail({to, subject, html, text}): the mail options are built, then one
\* await transport.sendMail(mailOptions) inside try/catch: {success: true,
\* messageId} when it resolves, {success: false, error} when it rejects.
sendEmail(to, html, text, transporter, answer) ==
  LET mailOptions == [to |-> to, html |-> html, text |-> TextOf(html, text)]
  IN  IF answer = "resolves"
      THEN Ended("returned", [success |-> TRUE, messageId |-> <<"id", to>>],
                 <<mailOptions>>, initTransporter(transporter))
      ELSE Ended("returned", [success |-> FALSE, error |-> "smtp error"],
                 <<mailOptions>>, initTransporter(transporter))

\* The calls a caller can make: verifyConnection(), or sendEmail for an
\* address with an HTML body, with or without a text of its own.
NotEnded == Ended("", "", <<>>, "")
MailerCalls(transporter) ==
  {[fn |-> "verifyConnection", to |-> 0, html |-> "", text |-> NoText,
    transporter |-> transporter, answer |-> a, returned |-> FALSE, end |-> NotEnded] :
      a \in {"resolves", "rejects"}}
  \cup
  {[fn |-> "sendEmail", to |-> to, html |-> html, text |-> text,
    transporter |-> transporter, answer |-> a, returned |-> FALSE, end |-> NotEnded] :
      to \in Emails, html \in {"", "<p>Hi</p>"}, text \in {NoText, "Hi"},
      a \in {"resolves", "rejects"}}

MailerInit == Fresh /\ call \in MailerCalls("null")

\* await verifyConnection()
CallVerifyConnection ==
  /\ ~call.returned
  /\ call.fn = "verifyConnection"
  /\ call' = [call EXCEPT !.returned = TRUE,
                           !.end = verifyConnection(call.transporter, call.answer)]
  /\ UNCHANGED <<loops, stateFile, logsFile, logsWriter, listsFile, templatesFile,
                 sheet, delivered, faults>>

\* await sendEmail({to, subject, html, text})
CallSendEmail ==
  /\ ~call.returned
  /\ call.fn = "sendEmail"
  /\ call' = [call EXCEPT !.returned = TRUE,
                           !.end = sendEmail(call.to, call.html, call.text,
                                             call.transporter, call.answer)]
  /\ UNCHANGED <<loops, stateFile, logsFile, logsWriter, listsFile, templatesFile,
                 sheet, delivered, faults>>

\* The caller goes on to its next call, with the transporter as it is now.
NextCall ==
  /\ call.returned
  /\ call' \in MailerCalls(call.end.transporter)
  /\ UNCHANGED <<loops, stateFile, logsFile, logsWriter, listsFile, templatesFile,
                 sheet, delivered, faults>>

MailerNext == CallVerifyConnection \/ CallSendEmail \/ NextCall

MailerSpec == MailerInit /\ [][MailerNext]_vars

\* ------------------------------------------------- the pending rows alone
\* What a row of a tab can hold: an address or none (0), a status or none, a
\* timestamp or none, an unsubscribed mark or none.
RowsOfTab ==
  [1 .. 2 -> [email : {0, 1}, sendStatus : {"", "SENT", "FAILED: smtp error"},
              sentAt : {"", "ts"}, unsubscribed : {"", "ts"}]]

PendingAt(rows) == [rows |-> rows, returned |-> FALSE, pending |-> <<>>]

PendingInit == Fresh /\ call \in {PendingAt(rows) : rows \in RowsOfTab}

\* getUnsentFromSheet(sheetName) is called on a tab with these rows and returns.
CallGetUnsentFromSheet ==
  /\ ~call.returned
  /\ call' = [call EXCEPT !.returned = TRUE,
                          !.pending = getUnsentFromSheet([tab \in Tabs |-> call.rows],
                                                         ListSheet)]
  /\ UNCHANGED <<loops, stateFile, logsFile, logsWriter, listsFile, templatesFile,
                 sheet, delivered, faults>>

PendingSpec == PendingInit /\ [][CallGetUnsentFromSheet]_vars

\* ------------------------------------------------------------ the CLI sender
\* getRows(): the data rows of the tab email_list_test.
getRows(sh) == getRowsFromSheet(sh, DefaultSheet)

\* getNextUnsent(): rows.find(row => row.email && !row.sendStatus), as the
\* rowIndex of the row found, 0 when find returns undefined.
getNextUnsent(sh) ==
  LET rows == getRows(sh)
      unsent == {k \in 1 .. Len(rows) : rows[k].email # 0 /\ rows[k].sendStatus = ""}
  IN  IF unsent = {} THEN 0
      ELSE rows[CHOOSE k \in unsent : \A j \in unsent : k <= j].rowIndex

\* getStats(): the rows with an email, and of them those whose status is
\* 'SENT', is 'FAILED', is empty.
getStats(sh) ==
  LET rows == getRows(sh)
      withEmail == {k \in 1 .. Len(rows) : rows[k].email # 0}
  IN  [total   |-> Cardinality(withEmail),
       sent    |-> Cardinality({k \in withEmail : rows[k].sendStatus = "SENT"}),
       failed  |-> Cardinality({k \in withEmail : rows[k].sendStatus = "FAILED"}),
       pending |-> Cardinality({k \in withEmail : rows[k].sendStatus = ""})]

\* updateRow(rowIndex, status): columns B and C of the row in email_list_test.
updateRow(sh, rowIndex, status) == updateRowInSheet(sh, DefaultSheet, rowIndex, status)

markSent(sh, rowIndex) == updateRow(sh, rowIndex, "SENT")

\* Mutant of markFailed: the failure is not written to the row.
markFailedNotWritten(sh, rowIndex) == sh

\* markFailed(rowIndex, error): the status is `FAILED: ${error}`.
markFailed(sh, rowIndex) == updateRow(sh, rowIndex, RowStatus("error"))

\* parseArgs(): no option, --count N, or --all.
CliArgs ==
  {[mode |-> "single", count |-> 0], [mode |-> "all", count |-> 0]}
    \cup {[mode |-> "count", count |-> n] : n \in 0 .. NumRecipients + 1}

\* Math.min(args.count, stats.pending)
Min(a, b) == IF a < b THEN a ELSE b

\* maxToSend, from the arguments and the pending count of the first getStats().
MaxToSend(args, stats) ==
  IF args.mode = "all" THEN stats.pending
  ELSE IF args.mode = "count" THEN Min(args.count, stats.pending)
  ELSE 1

\* main() before its first await.
CliAt(args) ==
  [args |-> args, pc |-> "start", ended |-> "", i |-> 0, maxToSend |-> 0, row |-> 0,
   result |-> "", attempted |-> <<>>, sentCount |-> 0, failedCount |-> 0,
   stats |-> <<>>, finalStats |-> <<>>]

\* What the tab email_list_test can hold when the sender starts: per row an
\* address or none; no status, or SENT or FAILED: <reason> with a timestamp
\* from an earlier run; the unsubscribed mark of GET /api/unsubscribe or none.
CliRows ==
  [1 .. NumRecipients ->
     {[email |-> e, sendStatus |-> st, sentAt |-> IF st = "" THEN "" ELSE "ts",
       unsubscribed |-> u] :
        e \in {0, 1}, st \in {"", "SENT", RowStatus("error")}, u \in {"", "ts"}}]

CliInit ==
  /\ loops = <<>>
  /\ stateFile = <<>>
  /\ logsFile = <<>>
  /\ logsWriter = 0
  /\ listsFile = [id |-> "list", sheetName |-> "", emails |-> <<>>]
  /\ templatesFile = <<>>
  /\ sheet \in {[tab \in Tabs |-> rows] : rows \in CliRows}
  /\ delivered = [p \in (1 .. MaxLoops) \X Emails |-> 0]
  /\ faults = 0
  /\ call \in {CliAt(args) : args \in CliArgs}

\* After the for loop: the summary and the final getStats(); main returns.
CliFinish(c, sh) ==
  [c EXCEPT !.pc = "exit", !.ended = "returned", !.finalStats = <<getStats(sh)>>]

\* for (...; i < maxToSend; ...) { row = await getNextUnsent(); if (!row) break;
\* ... sendEmail(...) }: the head of one iteration, up to the call of sendEmail.
CliIterate(c, sh) ==
  IF c.i < c.maxToSend /\ getNextUnsent(sh) # 0
  THEN [c EXCEPT !.pc = "sending", !.row = getNextUnsent(sh),
                 !.attempted = Append(@, getNextUnsent(sh))]
  ELSE CliFinish(c, sh)

\* main() from its start to the first sendEmail: getStats(), the return when
\* nothing is pending, verifyConnection() (`connected`) and process.exit(1)
\* when it fails, maxToSend, and the first iteration.
CliStart ==
  \E connected \in BOOLEAN :
    LET stats == getStats(sheet)
        c == [call EXCEPT !.stats = <<stats>>]
    IN  /\ call.pc = "start"
        /\ call' = IF stats.pending = 0 THEN [c EXCEPT !.pc = "exit", !.ended = "returned"]
                   ELSE IF ~connected THEN [c EXCEPT !.pc = "exit", !.ended = "exit 1"]
                   ELSE CliIterate([c EXCEPT !.maxToSend = MaxToSend(call.args, stats)], sheet)
        /\ UNCHANGED <<loops, stateFile, logsFile, logsWriter, listsFile, templatesFile,
                       sheet, delivered, faults>>

\* sendEmail returns {success: true} or {success: false, error}; markSent or
\* markFailed is called.
CliSendReturn ==
  \E result \in {"ok", "error"} :
    /\ call.pc = "sending"
    /\ call' = [call EXCEPT !.pc = "marking", !.result = result]
    /\ UNCHANGED <<loops, stateFile, logsFile, logsWriter, listsFile, templatesFile,
                   sheet, delivered, faults>>

\* markSent / markFailed returns, the row updated, or throws (main rejects:
\* process.exit(1)).  Then the rate-limit sleep, or after the last of
\* maxToSend the end of the loop.
CliMarkReturn ==
  \E ioOk \in BOOLEAN :
    LET marked == IF call.result = "ok" THEN markSent(sheet, call.row)
                  ELSE markFailed(sheet, call.row)
        c == IF call.result = "ok" THEN [call EXCEPT !.sentCount = @ + 1]
             ELSE [call EXCEPT !.failedCount = @ + 1]
    IN  /\ call.pc = "marking"
        /\ sheet' = IF ioOk THEN marked ELSE sheet
        /\ call' = IF ~ioOk THEN [call EXCEPT !.pc = "exit", !.ended = "exit 1"]
                   ELSE IF call.i < call.maxToSend - 1 THEN [c EXCEPT !.pc = "sleep"]
                   ELSE CliFinish([c EXCEPT !.i = @ + 1], marked)
        /\ UNCHANGED <<loops, stateFile, logsFile, logsWriter, listsFile, templatesFile,
                       delivered, faults>>

\* The rate-limit sleep is over: i++, and the next iteration.
CliSleepElapsed ==
  /\ call.pc = "sleep"
  /\ call' = CliIterate([call EXCEPT !.i = @ + 1], sheet)
  /\ UNCHANGED <<loops, stateFile, logsFile, logsWriter, listsFile, templatesFile,
                 sheet, delivered, faults>>

CliNext == CliStart \/ CliSendReturn \/ CliMarkReturn \/ CliSleepElapsed

CliSpec == CliInit /\ [][CliNext]_vars

\* Every awaited call of the transport and of the spreadsheet returns or
\* throws, and every timer fires.
CliLiveSpec == CliSpec /\ WF_vars(CliNext)

\* ---------------------------------------------------------------- rendering
\* HTML is a sequence of lexemes: runs of text, newlines, and tags with their
\* attributes.  An attribute is written key="value"; its value is a sequence
\* of pieces of text, of which the piece "'" is an apostrophe.  Addresses and
\* URLs are sequences of pieces too.
Attr(key, value) == [key |-> key, value |-> value]
Txt(s) == [t |-> "txt", s |-> s, attrs |-> <<>>]
Tag(name, attrs) == [t |-> "tag", s |-> name, attrs |-> attrs]
Newline == [t |-> "nl", s |-> "\n", attrs |-> <<>>]
CloseAnchor == Tag("/a", <<>>)

\* The sequences over an alphabet, up to a length.
RECURSIVE SeqsUpTo(_, _)
SeqsUpTo(S, n) ==
  IF n = 0 THEN {<<>>}
  ELSE LET shorter == SeqsUpTo(S, n - 1)
       IN  shorter \cup {Append(q, x) : q \in shorter, x \in S}

\* The pieces of a sequence of piece sequences, in order.
RECURSIVE Flatten(_)
Flatten(ss) == IF ss = <<>> THEN <<>> ELSE Head(ss) \o Flatten(Tail(ss))

\* encodeURIComponent on one piece: letters, digits and - _ . ! ~ * ' ( ) stay
\* (the apostrophe among them), everything else becomes %XX.
encodeURIComponent(piece) ==
  CASE piece = "@" -> "%40"
    [] piece = "%40" -> "%2540"
    [] piece = "https://a.example" -> "https%3A%2F%2Fa.example"
    [] piece = "https://b.example" -> "https%3A%2F%2Fb.example"
    [] piece = "https://www.clicklocal.me/email" -> "https%3A%2F%2Fwww.clicklocal.me%2Femail"
    [] piece = "?e=" -> "%3Fe%3D"
    [] piece = "&s=" -> "%26s%3D"
    [] piece = "&lang=en" -> "%26lang%3Den"
    [] piece = "&lang=de" -> "%26lang%3Dde"
    [] piece = "click here" -> "click%20here"
    [] piece = "klicken Sie hier" -> "klicken%20Sie%20hier"
    [] OTHER -> piece

EncodePieces(pieces) == [k \in 1 .. Len(pieces) |-> encodeURIComponent(pieces[k])]

\* encodeSheetName: Base64 of the tab name, with the = padding removed.
encodeSheetName(sheetName) ==
  CASE sheetName = "list_1" -> "bGlzdF8x"
    [] sheetName = "email_list_test" -> "ZW1haWxfbGlzdF90ZXN0"

\* new URL(url).hostname.replace('www.', ''), or 'link' when url is no URL.
Hostname(url) ==
  CASE url = <<>> -> "link"
    [] url # <<>> /\ url[1] = "https://a.example" -> "a.example"
    [] url # <<>> /\ url[1] = "https://b.example" -> "b.example"
    [] url # <<>> /\ url[1] = "https://www.clicklocal.me/email" -> "clicklocal.me"
    [] url # <<>> /\ url[1] = "https://www.clicklocal.me/api/click" -> "clicklocal.me"
    [] OTHER -> "link"

ClickEndpoint == "https://www.clicklocal.me/api/click"

\* href= in an attribute, as the link regex (flag i) and as the regex of the
\* attribute replacement (no flag) find it; data-href ends in href too.
IsHref(attr) == attr.key \in {"href", "HREF", "data-href"}
IsLowerHref(attr) == attr.key \in {"href", "data-href"}

\* ["']([^"']+)["'] on the quoted value: the pieces up to the first quote
\* character in it, which an apostrophe is.
RECURSIVE UpToQuote(_)
UpToQuote(value) ==
  IF value = <<>> \/ Head(value) = "'" THEN <<>>
  ELSE <<Head(value)>> \o UpToQuote(Tail(value))

\* What of key="value" is left behind the match when an apostrophe ended it:
\* the rest of the value and the closing quote, as text among the attributes.
Leftover(value) ==
  IF Len(UpToQuote(value)) = Len(value) THEN <<>>
  ELSE <<Attr("\"", SubSeq(value, Len(UpToQuote(value)) + 2, Len(value)))>>

\* The attributes in which the link regex can match href=["']([^"']+)["'].
HrefsOf(attrs) == {k \in 1 .. Len(attrs) : IsHref(attrs[k]) /\ UpToQuote(attrs[k].value) # <<>>}
LowerHrefsOf(attrs) ==
  {k \in 1 .. Len(attrs) : IsLowerHref(attrs[k]) /\ UpToQuote(attrs[k].value) # <<>>}

Last(S) == CHOOSE k \in S : \A j \in S : j <= k
First(S) == CHOOSE k \in S : \A j \in S : k <= j

\* <a\s+([^>]*href=["']([^"']+)["'][^>]*)>: an opening a tag with an href; the
\* greedy [^>]* makes the URL captured the one of the last href.
IsLinkStart(tok) == tok.t = "tag" /\ tok.s = "a" /\ HrefsOf(tok.attrs) # {}
CapturedUrl(attrs) == UpToQuote(attrs[Last(HrefsOf(attrs))].value)

\* ([\s\S]*?)<\/a>: the first closing tag after position p, 0 when there is none.
CloseOf(html, p) ==
  LET closes == {q \in (p + 1) .. Len(html) : html[q] = CloseAnchor}
  IN  IF closes = {} THEN 0 ELSE First(closes)

\* url.includes('clicklocal.me/api/click')
IsTrackingUrl(url) == \E k \in 1 .. Len(url) : url[k] = ClickEndpoint

\* linkText.replace(/<[^>]*>/g, '').trim(), cut to 30 characters (no text here
\* is longer); without text, the host name of the URL.
LinkName(linkText, url) ==
  LET texts == SelectSeq(linkText, LAMBDA tok : tok.t = "txt")
      cleanText == [k \in 1 .. Len(texts) |-> texts[k].s]
  IN  IF cleanText # <<>> THEN cleanText ELSE <<Hostname(url)>>

TrackingUrl(email, sheetName, url, linkName) ==
  <<ClickEndpoint, "?e=">> \o EncodePieces(email)
    \o <<"&s=", encodeSheetName(sheetName), "&url=">> \o EncodePieces(url)
    \o <<"&link=">> \o EncodePieces(linkName)

\* attrs.replace(/href=["'][^"']+["']/, `href="${trackingUrl}"`): the first
\* match of the case-sensitive regex is replaced; with none, attrs stay.
ReplaceHref(attrs, trackingUrl) ==
  IF LowerHrefsOf(attrs) = {} THEN attrs
  ELSE LET f == First(LowerHrefsOf(attrs))
       IN  SubSeq(attrs, 1, f - 1)
             \o <<Attr(attrs[f].key, trackingUrl)>> \o Leftover(attrs[f].value)
             \o SubSeq(attrs, f + 1, Len(attrs))

\* The callback of html.replace(linkRegex, ...) for one match.
ReplaceLink(tok, linkText, email, sheetName) ==
  LET url == CapturedUrl(tok.attrs)
      trackingUrl == TrackingUrl(email, sheetName, url, LinkName(linkText, url))
  IN  IF IsTrackingUrl(url) THEN <<tok>> \o linkText \o <<CloseAnchor>>
      ELSE <<Tag("a", ReplaceHref(tok.attrs, trackingUrl))>> \o linkText \o <<CloseAnchor>>

\* html.replace(linkRegex, ...) from position p on: matches are found from
\* left to right and do not overlap.
RECURSIVE WrapFrom(_, _, _, _)
WrapFrom(html, p, email, sheetName) ==
  IF p > Len(html) THEN <<>>
  ELSE IF IsLinkStart(html[p]) /\ CloseOf(html, p) # 0
  THEN ReplaceLink(html[p], SubSeq(html, p + 1, CloseOf(html, p) - 1), email, sheetName)
         \o WrapFrom(html, CloseOf(html, p) + 1, email, sheetName)
  ELSE <<html[p]>> \o WrapFrom(html, p + 1, email, sheetName)

wrapLinksWithTracking(html, email, sheetName) == WrapFrom(html, 1, email, sheetName)

\* ------------------------------------------------- link wrapping alone
\* wrapLinksWithTracking applied to short HTML texts, and to its own result.
WrapAttrs ==
  {<<>>,
   <<Attr("href", <<"https://a.example">>)>>,
   <<Attr("HREF", <<"https://a.example">>)>>,
   <<Attr("href", <<"https://a.example">>), Attr("data-href", <<"https://b.example">>)>>,
   <<Attr("href", <<ClickEndpoint, "?e=", "bob", "%40", "x.com">>)>>}

WrapLexemes == {Tag("a", attrs) : attrs \in WrapAttrs}
                 \cup {CloseAnchor, Txt("Hi"), Tag("b", <<>>)}

\* bob@x.com and o'brien@x.com
RenderEmails == {<<"bob", "@", "x.com">>, <<"o", "'", "brien", "@", "x.com">>}

WrapInit ==
  /\ Fresh
  /\ call \in {[html |-> html, email |-> email, passes |-> 0, before |-> <<>>] :
                 html \in SeqsUpTo(WrapLexemes, MaxLexemes), email \in RenderEmails}

\* html = wrapLinksWithTracking(html, recipient.email, sheetName), on the tab
\* of the list.
Wrap ==
  /\ call.passes < MaxPasses
  /\ call' = [call EXCEPT !.before = call.html,
                          !.html = wrapLinksWithTracking(call.html, call.email,
                                                         SheetNameOf(listsFile)),
                          !.passes = @ + 1]
  /\ UNCHANGED <<loops, stateFile, logsFile, logsWriter, listsFile, templatesFile,
                 sheet, delivered, faults>>

WrapSpec == WrapInit /\ [][Wrap]_vars

\* ------------------------------------------------- rendering one message
BodyDiv == Tag("div", <<Attr("style", <<"font-family: sans-serif;">>)>>)
CloseDiv == Tag("/div", <<>>)
Br == Tag("br", <<>>)

\* '{{TAG_' + i + '}}'
Placeholder(i) ==
  Txt(CASE i = 0 -> "{{TAG_0}}"
        [] i = 1 -> "{{TAG_1}}"
        [] i = 2 -> "{{TAG_2}}"
        [] OTHER -> "{{TAG_3}}")

\* >.*?<\/a (and b, i): the first closing tag after position p, when no
\* newline stands before it (the dot matches no newline); 0 otherwise.
ClosedBy(content, p, close) ==
  LET closes == {q \in (p + 1) .. Len(content) : content[q] = close}
  IN  IF closes = {} THEN 0
      ELSE IF \E k \in (p + 1) .. (First(closes) - 1) : content[k] = Newline THEN 0
      ELSE First(closes)

\* /<(img[^>]*|a[^>]*>.*?<\/a|b>.*?<\/b|i>.*?<\/i)>/gi at position p: the
\* position where the match ends, 0 when there is no match at p.
PreservedEnd(content, p) ==
  LET tok == content[p]
  IN  CASE tok.t = "tag" /\ tok.s = "img" -> p
        [] tok.t = "tag" /\ tok.s = "a" -> ClosedBy(content, p, CloseAnchor)
        [] tok.t = "tag" /\ tok.s = "b" /\ tok.attrs = <<>> ->
             ClosedBy(content, p, Tag("/b", <<>>))
        [] tok.t = "tag" /\ tok.s = "i" /\ tok.attrs = <<>> ->
             ClosedBy(content, p, Tag("/i", <<>>))
        [] OTHER -> 0

\* template.content.replace(regex, callback): every match is pushed on
\* preservedTags and replaced by its placeholder; n is preservedTags.length.
RECURSIVE ExtractFrom(_, _, _)
ExtractFrom(content, p, n) ==
  IF p > Len(content) THEN [processed |-> <<>>, preservedTags |-> <<>>]
  ELSE IF PreservedEnd(content, p) = 0
  THEN LET rest == ExtractFrom(content, p + 1, n)
       IN  [processed |-> <<content[p]>> \o rest.processed,
            preservedTags |-> rest.preservedTags]
  ELSE LET rest == ExtractFrom(content, PreservedEnd(content, p) + 1, n + 1)
       IN  [processed |-> <<Placeholder(n)>> \o rest.processed,
            preservedTags |->
              <<SubSeq(content, p, PreservedEnd(content, p))>> \o rest.preservedTags]

\* A newline inside a tag, between its attributes, and what
\* replace(/\n/g, '<br>') makes of it there.
NewlineInTag == Attr("\n", <<>>)
BrInTag == Attr("<br>", <<>>)

\* replace(/\n/g, '<br>'): every newline of the text, those inside tags too.
NewlinesToBr(processed) ==
  [k \in 1 .. Len(processed) |->
     IF processed[k] = Newline THEN Br
     ELSE [processed[k] EXCEPT !.attrs =
             [j \in 1 .. Len(@) |-> IF @[j] = NewlineInTag THEN BrInTag ELSE @[j]]]]

\* preservedTags.forEach((tag, idx) => processed.replace('{{TAG_' + idx + '}}',
\* tag)): the first occurrence of each placeholder is replaced, in turn.
RECURSIVE RestoreFrom(_, _, _)
RestoreFrom(processed, preservedTags, idx) ==
  IF idx > Len(preservedTags) THEN processed
  ELSE LET at == {k \in 1 .. Len(processed) : processed[k] = Placeholder(idx - 1)}
           replaced ==
             IF at = {} THEN processed
             ELSE SubSeq(processed, 1, First(at) - 1) \o preservedTags[idx]
                    \o SubSeq(processed, First(at) + 1, Len(processed))
       IN  RestoreFrom(replaced, preservedTags, idx + 1)

\* The text-to-HTML conversion of the send loop: the allow-listed tags are
\* taken out, newlines become <br>, the tags are put back.  Nothing is
\* escaped.
SendTextToHtml(content) ==
  LET extracted == ExtractFrom(content, 1, 0)
  IN  <<BodyDiv>>
        \o RestoreFrom(NewlinesToBr(extracted.processed), extracted.preservedTags, 1)
        \o <<CloseDiv>>

\* The text-to-HTML conversion of the resume loop: newlines become <br>.
ResumeTextToHtml(content) == <<BodyDiv>> \o NewlinesToBr(content) \o <<CloseDiv>>

\* The body of a message, by the loop that renders it.
BodyOf(content, contentType, kind) ==
  IF contentType = "text"
  THEN IF kind = "send" THEN SendTextToHtml(content) ELSE ResumeTextToHtml(content)
  ELSE content

\* https://www.clicklocal.me/email?e={{EMAIL}}&s={{SHEET}}&lang=..., with
\* {{EMAIL}} and {{SHEET}} replaced.
UnsubscribeUrl(optOutLang, email, sheetName) ==
  <<"https://www.clicklocal.me/email", "?e=">> \o EncodePieces(email)
    \o <<"&s=", encodeSheetName(sheetName),
         IF optOutLang = "de" THEN "&lang=de" ELSE "&lang=en">>

FooterDiv ==
  Tag("div", <<Attr("style", <<"margin-top:40px;padding-top:15px;border-top:1px solid #e5e7eb;font-size:11px;color:#9ca3af;text-align:center;">>)>>)

FooterLink(optOutLang, email, sheetName) ==
  Tag("a", <<Attr("href", UnsubscribeUrl(optOutLang, email, sheetName)),
             Attr("style", <<"color:#9ca3af;">>)>>)

FooterSentence(optOutLang) ==
  IF optOutLang = "de"
  THEN Txt("Falls Sie diese E-Mails nicht mehr erhalten möchten, ")
  ELSE Txt("If you no longer wish to receive these emails, ")

FooterLinkText(optOutLang) ==
  IF optOutLang = "de" THEN Txt("klicken Sie hier") ELSE Txt("click here")

\* optOutFooters[optOutLang] with its two replacements.  The footers of the
\* send loop are written over several lines, those of the resume loop on one.
Footer(optOutLang, email, sheetName, kind) ==
  LET nl == IF kind = "send" THEN <<Newline>> ELSE <<>>
  IN  nl \o <<FooterDiv>> \o nl \o <<Tag("p", <<Attr("style", <<"margin:0;">>)>>)>> \o nl
        \o <<FooterSentence(optOutLang), FooterLink(optOutLang, email, sheetName),
             FooterLinkText(optOutLang), CloseAnchor, Txt(".")>>
        \o nl \o <<Tag("/p", <<>>)>> \o nl \o <<CloseDiv>>

\* optOutLang && optOutFooters[optOutLang]
HasFooter(optOutLang) == optOutLang \in {"de", "en"}

TrackEndpoint == "https://www.clicklocal.me/api/track"

trackingPixel(email, sheetName) ==
  Tag("img", <<Attr("src", <<TrackEndpoint, "?e=">> \o EncodePieces(email)
                             \o <<"&s=", encodeSheetName(sheetName)>>),
               Attr("width", <<"1">>), Attr("height", <<"1">>),
               Attr("style", <<"display:none;width:1px;height:1px;">>),
               Attr("alt", <<>>)>>)

\* A rendering that appends the pixel before the footer and the link wrapping.
RenderPixelFirst(content, contentType, optOutLang, email, sheetName, kind) ==
  LET body == BodyOf(content, contentType, kind) \o <<trackingPixel(email, sheetName)>>
      withFooter == IF HasFooter(optOutLang)
                    THEN body \o Footer(optOutLang, email, sheetName, kind)
                    ELSE body
  IN  wrapLinksWithTracking(withFooter, email, sheetName)

\* The html of one message: body, footer, link wrapping, pixel.
Render(content, contentType, optOutLang, email, sheetName, kind) ==
  LET body == BodyOf(content, contentType, kind)
      withFooter == IF HasFooter(optOutLang)
                    THEN body \o Footer(optOutLang, email, sheetName, kind)
                    ELSE body
  IN  wrapLinksWithTracking(withFooter, email, sheetName)
        \o <<trackingPixel(email, sheetName)>>

\* The template contents, opt-out languages and content types rendered.
ContentLexemes ==
  {Txt("Hello"), Txt("World"), Newline, Tag("script", <<>>), Tag("b", <<>>),
   Tag("/b", <<>>), Tag("a", <<Attr("href", <<"https://a.example">>)>>), CloseAnchor,
   Tag("img", <<Attr("src", <<"https://a.example">>), NewlineInTag, Attr("alt", <<>>)>>)}

OptOutLangs == {"", "de", "en", "fr"}

RenderAt(content, contentType, optOutLang, email) ==
  [content |-> content, contentType |-> contentType, optOutLang |-> optOutLang,
   email |-> email, kind |-> "", returned |-> FALSE, body |-> <<>>, html |-> <<>>]

RenderInit ==
  /\ Fresh
  /\ call \in {RenderAt(content, contentType, optOutLang, email) :
                 content \in SeqsUpTo(ContentLexemes, MaxLexemes),
                 contentType \in {"text", "html"},
                 optOutLang \in OptOutLangs, email \in RenderEmails}

Rendered(kind) ==
  [call EXCEPT !.kind = kind, !.returned = TRUE,
               !.body = BodyOf(call.content, call.contentType, kind),
               !.html = Render(call.content, call.contentType, call.optOutLang,
                               call.email, SheetNameOf(listsFile), kind)]

\* The send loop renders the message of one recipient.
SendLoopRenders ==
  /\ ~call.returned
  /\ call' = Rendered("send")
  /\ UNCHANGED <<loops, stateFile, logsFile, logsWriter, listsFile, templatesFile,
                 sheet, delivered, faults>>

\* The resume loop renders the message of one recipient.
ResumeLoopRenders ==
  /\ ~call.returned
  /\ call' = Rendered("resume")
  /\ UNCHANGED <<loops, stateFile, logsFile, logsWriter, listsFile, templatesFile,
                 sheet, delivered, faults>>

RenderNext == SendLoopRenders \/ ResumeLoopRenders

RenderSpec == RenderInit /\ [][RenderNext]_vars

\* ================================================================== claims
Live(l) == loops[l].pc \in {"qwait", "sending", "store", "rwait"}

Ran(l) == loops[l].pc # "dead"

\* The addresses a loop has attempted, in the order of the attempts.
AttemptedTo(l) == [k \in 1 .. Len(loops[l].attempts) |-> loops[l].attempts[k].to]

\* The entries of a log that loop l appended (the first component of an
\* entry's id is the loop that created it).
PassEntries(logs, l) == SelectSeq(logs, LAMBDA e : e.id[1] = l)

\* C1: an unsubscribed recipient is never sent to again: no loop, started or
\* resumed, hands the Mail Transport a message for an address that is marked
\* unsubscribed at the moment of the call.
C1_NeverSendToUnsubscribed ==
  \A l \in 1 .. Len(loops) : ~loops[l].toUnsubscribed

\* C2: no send occurs during quiet hours: whenever a loop has called the Mail
\* Transport for a recipient, the quiet-hours check that preceded the call
\* found the clock outside the window 21:00-08:00.
C2_CheckBeforeSendOutsideQuietHours ==
  \A l \in 1 .. Len(loops) : loops[l].pc = "sending" => ~loops[l].checkedQuiet

\* C7: only one campaign is active at a time: at every moment at most one send
\* loop is running or suspended.
C7_AtMostOneLoopActive ==
  Cardinality({l \in 1 .. Len(loops) : Live(l)}) <= 1

\* C8: across POST /api/send, a crash at any point of the loop, restart and
\* POST /api/campaign-resume, no recipient receives the campaign message from
\* the Mail Transport more than once.  Stated for a resume loop launched after
\* the crash that ended every earlier loop.
C8_ResumeAfterCrashDeliversOnce ==
  \A l \in 1 .. Len(loops) :
    (/\ loops[l].kind = "resume"
     /\ \A k \in 1 .. (l - 1) : loops[k].pc = "dead")
    => \A e \in Emails : delivered[<<loops[l].campaignId, e>>] <= 1

\* C3: for every recipient of a campaign pass exactly one LogEntry, sent or
\* failed, is appended: when a pass has completed, the logs file it has
\* written holds, for each recipient of its sequence, exactly one entry of
\* that pass under the campaign's id; and no entry of the logs file is pending.
C3_OneEntryPerRecipient ==
  /\ \A k \in 1 .. Len(logsFile) : logsFile[k].status # "pending"
  /\ \A l \in 1 .. Len(loops) :
       (loops[l].pc = "done" /\ logsWriter = l) =>
         \A r \in 1 .. Len(loops[l].recipients) :
           LET mine == {k \in 1 .. Len(logsFile) :
                          /\ logsFile[k].id[1] = l
                          /\ logsFile[k].campaignId = loops[l].campaignId
                          /\ logsFile[k].email = loops[l].recipients[r].email}
           IN  /\ Cardinality(mine) = 1
               /\ \A k \in mine : logsFile[k].status \in {"sent", "failed"}

\* A pass over the whole list has completed with a success and a failure, and
\* its entries are in the file.
C3_Witness ==
  \E l \in 1 .. Len(loops) :
    /\ loops[l].pc = "done"
    /\ logsWriter = l
    /\ Len(loops[l].recipients) = NumRecipients
    /\ Len(PassEntries(logsFile, l)) = NumRecipients
    /\ \E k \in 1 .. Len(logsFile) : logsFile[k].id[1] = l /\ logsFile[k].status = "sent"
    /\ \E k \in 1 .. Len(logsFile) : logsFile[k].id[1] = l /\ logsFile[k].status = "failed"

\* C4: failure never aborts the loop: the attempts of a pass go to its
\* recipients in sequence order, one attempt each (no retry, no skip), whatever
\* fails; a pass that has completed has attempted every recipient.
C4_OneAttemptEach ==
  \A l \in 1 .. Len(loops) :
    Ran(l) =>
      /\ Len(loops[l].attempts) <= Len(loops[l].recipients)
      /\ \A k \in 1 .. Len(loops[l].attempts) :
           loops[l].attempts[k].to = loops[l].recipients[k].email
      /\ loops[l].pc = "done" => Len(loops[l].attempts) = Len(loops[l].recipients)
      /\ Live(l) => Len(loops[l].attempts) \in {loops[l].i - 1, loops[l].i}

\* A completed pass in which the transport failed on recipient k and recipient
\* k + 1 was sent to.
C4_Witness ==
  \E l \in 1 .. Len(loops) :
    /\ loops[l].pc = "done"
    /\ \E k \in 1 .. (Len(loops[l].attempts) - 1) :
         /\ loops[l].attempts[k].result = "error"
         /\ loops[l].attempts[k + 1].to = loops[l].recipients[k + 1].email
         /\ loops[l].attempts[k + 1].result = "ok"

\* C5: the log entries of a pass are appended in recipient-sequence order and
\* each carries the outcome of that recipient's send: in the logs file a loop
\* has written, the i-th entry of its pass is for its i-th recipient and is
\* sent iff the i-th send succeeded.
C5_EntriesInOrderWithOutcome ==
  \A l \in 1 .. Len(loops) :
    (Ran(l) /\ logsWriter = l) =>
      LET mine == PassEntries(logsFile, l)
      IN  /\ Len(mine) <= Len(loops[l].attempts)
          /\ Len(loops[l].attempts) <= Len(mine) + 1
          /\ \A k \in 1 .. Len(mine) :
               /\ mine[k].email = loops[l].recipients[k].email
               /\ mine[k].status \in {"sent", "failed"}
               /\ mine[k].status = "sent" <=> loops[l].attempts[k].result = "ok"

\* Three recipients, the transport fails on the 2nd call: [sent, failed, sent].
C5_Witness ==
  \E l \in 1 .. Len(loops) :
    /\ logsWriter = l
    /\ loops[l].pc = "done"
    /\ [k \in 1 .. Len(loops[l].attempts) |-> loops[l].attempts[k].result]
         = <<"ok", "error", "ok">>
    /\ [k \in 1 .. Len(PassEntries(logsFile, l)) |-> PassEntries(logsFile, l)[k].status]
         = <<"sent", "failed", "sent">>

\* C6: the complete event of a campaign started by POST /api/send reports
\* sent and failed as the numbers of entries of the logs file under this
\* campaign's id with that status, which are the numbers of recipients whose
\* send succeeded and failed in the pass.
C6_CompleteEventTotals ==
  \A l \in 1 .. Len(loops) :
    (loops[l].kind = "send" /\ loops[l].pc = "done") =>
      LET evt == loops[l].complete[1]
          oks == {k \in 1 .. Len(loops[l].attempts) : loops[l].attempts[k].result = "ok"}
          bad == {k \in 1 .. Len(loops[l].attempts) : loops[l].attempts[k].result # "ok"}
      IN  /\ evt.sent = Cardinality(oks)
          /\ evt.failed = Cardinality(bad)
          /\ logsWriter = l =>
               /\ evt.sent = Cardinality({k \in 1 .. Len(logsFile) :
                     logsFile[k].campaignId = loops[l].campaignId /\ logsFile[k].status = "sent"})
               /\ evt.failed = Cardinality({k \in 1 .. Len(logsFile) :
                     logsFile[k].campaignId = loops[l].campaignId /\ logsFile[k].status = "failed"})

\* Three recipients, the 2nd fails: sent = 2, failed = 1.
C6_Witness ==
  \E l \in 1 .. Len(loops) :
    /\ loops[l].kind = "send"
    /\ loops[l].pc = "done"
    /\ logsWriter = l
    /\ loops[l].complete[1].total = 3
    /\ loops[l].attempts[2].result = "error"
    /\ loops[l].complete[1].sent = 2
    /\ loops[l].complete[1].failed = 1

\* C9: resume excludes every recipient whose status was recorded in the
\* Recipient Store: a resumed loop makes no attempt to an address whose row
\* had a status or a sent timestamp when the resume queried the store.
C9_ResumeSkipsRecordedRows ==
  \A l \in 1 .. Len(loops) :
    loops[l].kind = "resume" =>
      \A k \in 1 .. Len(loops[l].attempts) :
        \A j \in 1 .. Len(loops[l].queried) :
          loops[l].queried[j].email = loops[l].attempts[k].to =>
            loops[l].queried[j].sendStatus = "" /\ loops[l].queried[j].sentAt = ""

\* A resumed loop has sent to a recipient while the store held a recorded
\* row that the saved campaign state does not reflect (not in sentEmails, and
\* currentIndex not past it).
C9_Witness ==
  \E l \in 1 .. Len(loops) :
    /\ loops[l].kind = "resume"
    /\ Len(loops[l].attempts) > 0
    /\ loops[l].attempts[1].result = "ok"
    /\ \E j \in 1 .. Len(loops[l].queried) :
         /\ loops[l].queried[j].sendStatus # ""
         /\ \A k \in 1 .. Len(loops[l].campaignState[1].sentEmails) :
              loops[l].campaignState[1].sentEmails[k] # loops[l].queried[j].email
         /\ loops[l].campaignState[1].currentIndex < j

\* The pending rows of the store as the resume found it, in storage order.
PendingAtResume(l) ==
  SelectSeq(loops[l].queried,
            LAMBDA r : r.email # 0 /\ r.sendStatus = "" /\ r.sentAt = "" /\ r.unsubscribed = "")

\* C10: the resume recipient sequence is exactly the store's pending rows in
\* storage order, whatever the saved currentIndex and sentEmails: the resumed
\* loop attempts those rows in that order, and all of them once complete.
C10_ResumeSequenceIsPendingRows ==
  \A l \in 1 .. Len(loops) :
    loops[l].kind = "resume" =>
      /\ Len(loops[l].recipients) = Len(PendingAtResume(l))
      /\ \A k \in 1 .. Len(loops[l].recipients) :
           /\ loops[l].recipients[k].email = PendingAtResume(l)[k].email
           /\ loops[l].recipients[k].rowIndex = PendingAtResume(l)[k].rowIndex
      /\ \A k \in 1 .. Len(loops[l].attempts) :
           loops[l].attempts[k].to = PendingAtResume(l)[k].email
      /\ loops[l].pc = "done" => Len(loops[l].attempts) = Len(PendingAtResume(l))

\* After a restart the saved state says currentIndex = 1 of 3 and the store
\* shows recipient #1 as SENT: the resumed loop has processed #2 and #3, in
\* that order.
C10_Witness ==
  \E l \in 1 .. Len(loops) :
    /\ loops[l].kind = "resume"
    /\ loops[l].pc = "done"
    /\ \A k \in 1 .. (l - 1) : loops[k].pc = "dead"
    /\ loops[l].campaignState[1].currentIndex = 1
    /\ loops[l].campaignState[1].totalRecipients = 3
    /\ loops[l].queried[1].sendStatus = "SENT"
    /\ AttemptedTo(l) = <<2, 3>>

\* The tab the saved campaign state names.
StateSheet == IF stateFile[1].sheetName # "" THEN stateFile[1].sheetName ELSE DefaultSheet

\* C11: after a campaign pass has reached complete, no recipient of the pass
\* is pending in the campaign's tab of the Recipient Store.
C11_NothingPendingAfterComplete ==
  \A l \in 1 .. Len(loops) :
    loops[l].pc = "done" =>
      LET pending == getUnsentFromSheet(sheet, loops[l].sheetName)
      IN  \A k \in 1 .. Len(loops[l].recipients) :
            \A j \in 1 .. Len(pending) :
              pending[j].email # loops[l].recipients[k].email

\* C12: when no campaign state is saved, or the saved status is complete,
\* POST /api/campaign-resume answers "No campaign to resume" and leaves the
\* loops, the campaign state, the logs, the store and the deliveries as they
\* are, whatever the clock, the store and the transport answer.
C12_ResumeOfCompleteIsNoOp ==
  (Len(stateFile) = 0 \/ stateFile[1].status = "complete") =>
    \A quiet \in ClockReadings, readOk \in BOOLEAN, connected \in BOOLEAN :
      LET r == PostCampaignResume(Now, quiet, readOk, connected)
      IN  r.next = Now /\ r.reply = "No campaign to resume"

\* The saved campaign, on the whole list, is complete while its tab still has
\* unsent rows and its template exists: a resume would have recipients.
C12_Witness ==
  /\ Len(stateFile) = 1
  /\ stateFile[1].status = "complete"
  /\ stateFile[1].totalRecipients = NumRecipients
  /\ Len(getUnsentFromSheet(sheet, StateSheet)) > 0
  /\ Len(FindTemplate(templatesFile, stateFile[1].templateId)) > 0
  /\ Len(loops) < MaxLoops
  /\ PostCampaignResume(Now, FALSE, TRUE, TRUE).next = Now

\* C13: when a campaign is saved and not complete and its tab has no unsent
\* row, POST /api/campaign-resume outside quiet hours saves the status
\* complete, starts no loop and sends nothing.
C13_ResumeWithNothingPendingCompletes ==
  (/\ Len(stateFile) = 1
   /\ stateFile[1].status # "complete"
   /\ Len(getUnsentFromSheet(sheet, StateSheet)) = 0)
  => PostCampaignResume(Now, FALSE, TRUE, TRUE).next
       = [Now EXCEPT !.stateFile[1].status = "complete"]

NoRecipients(listId) ==
  \/ Len(FindList(listId)) = 0
  \/ Len(SubscribedOf(FindList(listId)[1])) = 0

\* C15: when the template is not found, there are no recipients, or the
\* transport is unreachable, POST /api/send launches no loop, sends nothing,
\* emits no event and leaves the campaign state and the logs as they are.
C15_PreconditionErrorsChangeNothing ==
  \A templateId \in TemplateIds, listId \in ListIds, connected \in BOOLEAN :
    (\/ Len(FindTemplate(templatesFile, templateId)) = 0
     \/ NoRecipients(listId)
     \/ ~connected)
    => PostSend(Now, templateId, listId, connected, FALSE).next = Now

\* C16: when the store call after a send has thrown, the recipient's log entry
\* carries the outcome of the send, the loop's saved progress (sentEmails)
\* holds the recipient of a successful send, and the loop has gone on.
C16_StoreFailureKeepsOutcomeAndProgress ==
  \A l \in 1 .. Len(loops) :
    \A k \in loops[l].storeErrors :
      LET mine == SelectSeq(loops[l].logs, LAMBDA e : e.id = <<l, k>>)
          cs == loops[l].campaignState[1]
      IN  /\ Len(mine) = 1
          /\ mine[1].status = EntryStatus(loops[l].attempts[k].result)
          /\ loops[l].attempts[k].result = "ok" =>
               \E j \in 1 .. Len(cs.sentEmails) :
                 cs.sentEmails[j] = loops[l].recipients[k].email
          /\ loops[l].pc \in {"rwait", "done"} \/ loops[l].i > k

\* C17: while the process stays up and every wait elapses, every loop that is
\* launched reaches its end, where it saves complete and emits the complete
\* event; no loop emits the event twice, nor before its end.
C17_EveryLoopCompletesOnce ==
  /\ [](\A l \in 1 .. Len(loops) :
          /\ Len(loops[l].complete) <= 1
          /\ Len(loops[l].complete) = 1 <=> loops[l].pc = "done"
          /\ loops[l].pc = "done" => loops[l].campaignState[1].status = "complete")
  /\ \A l \in 1 .. MaxLoops :
       (Len(loops) >= l) ~> (Len(loops) >= l /\ loops[l].pc = "done")

\* A loop has completed after a transport failure and a failed store update.
C17_Witness ==
  \E l \in 1 .. Len(loops) :
    /\ loops[l].pc = "done"
    /\ Len(loops[l].complete) = 1
    /\ Len(loops[l].recipients) = NumRecipients
    /\ loops[l].storeErrors # {}
    /\ \E k \in 1 .. Len(loops[l].attempts) : loops[l].attempts[k].result = "error"

\* The status changes a campaign's saved state may go through in one write.
StatusChanges ==
  {<<"running", "paused_quiet_hours">>, <<"paused_quiet_hours", "running">>,
   <<"running", "complete">>}

\* What a step that saves the state several times may make of the status: a
\* chain of such changes, so anything but a way out of complete.
StatusChains ==
  {p \in {"running", "paused_quiet_hours", "complete"}
            \X {"running", "paused_quiet_hours", "complete"} :
     p[1] = p[2] \/ p[1] # "complete"}

\* C18: the saved status of a campaign is running, paused_quiet_hours or
\* complete; between two saves of the same campaignId it changes only by
\* running -> paused_quiet_hours, paused_quiet_hours -> running and
\* running -> complete (a step of a loop may chain several saves), the single
\* save of a resume that finds nothing to send changes it by one of these, and
\* once complete is saved for a campaignId no later save makes it running or
\* paused_quiet_hours.
C18_StatusFollowsStateMachine ==
  [][(Len(stateFile) = 1 /\ Len(stateFile') = 1
      /\ stateFile'[1].campaignId = stateFile[1].campaignId)
     => /\ <<stateFile[1].status, stateFile'[1].status>> \in StatusChains
        /\ ResumeNothing =>
             <<stateFile[1].status, stateFile'[1].status>> \in StatusChanges]_vars

\* The minute of the day at which the wall clock shows h:m.
At(h, m) == h * MinutesPerHour + m

\* C19: isQuietHours is true exactly from 21:00 on and before 08:00, at every
\* minute of the day: true at 22:00 and at 07:59, false at 08:00 exactly and
\* at 20:59.
C19_QuietExactlyFrom21To8 ==
  /\ call.minute \in Minutes
  /\ call.returned =>
       /\ call.quiet <=> (call.minute >= At(21, 0) \/ call.minute < At(8, 0))
       /\ call.minute \in {At(22, 0), At(7, 59)} => call.quiet
       /\ call.minute \in {At(8, 0), At(20, 59)} => ~call.quiet

\* The call at 07:59, the last minute of the quiet hours, has returned true.
C19_Witness == call.returned /\ call.minute = At(7, 59) /\ call.quiet

\* C20: the log is append-only: an entry that is in the logs file (a send
\* outcome or an unsubscribe event) is still there, unmodified, after every
\* later write of the file by a campaign loop or by the unsubscribe handler.
C20_LogIsAppendOnly ==
  [][\A k \in 1 .. Len(logsFile) :
       \E j \in 1 .. Len(logsFile') : logsFile'[j] = logsFile[k]]_vars

\* C26: after the quiet-hours wait the clock is looked at again before the
\* send: when a loop leaves the wait and calls the Mail Transport, the latest
\* quiet-hours check it made found the clock outside the window.
C26_RecheckAfterQuietWait ==
  [][\A l \in 1 .. Len(loops) :
       (loops[l].pc = "qwait" /\ loops'[l].pc = "sending") =>
          ~loops'[l].checkedQuiet]_vars

\* C28: a loop suspends for the rate-limit interval after an attempt exactly
\* when more recipients remain, never after the last one, so that exactly one
\* rate-limit wait has elapsed between two consecutive attempts: when k
\* attempts are over, k - 1 waits have elapsed, and k waits when the next
\* attempt is under way or held back by quiet hours.
C28_OneRateLimitWaitBetweenAttempts ==
  \A l \in 1 .. Len(loops) :
    Ran(l) =>
      /\ loops[l].pc = "rwait" =>
           /\ loops[l].i < Len(loops[l].recipients)
           /\ Len(loops[l].attempts) = loops[l].i
      /\ (loops[l].pc \in {"store", "rwait"}
           \/ (loops[l].pc = "done" /\ Len(loops[l].recipients) > 0)) =>
           loops[l].waits = Len(loops[l].attempts) - 1
      /\ loops[l].pc \in {"qwait", "sending"} =>
           loops[l].waits = Len(loops[l].attempts)
      /\ loops[l].pc = "done" =>
           loops[l].waits = IF Len(loops[l].recipients) = 0 THEN 0
                            ELSE Len(loops[l].recipients) - 1

\* A pass over all recipients, with a failed send among them, has completed
\* after one wait fewer than recipients.
C28_Witness ==
  \E l \in 1 .. Len(loops) :
    /\ loops[l].pc = "done"
    /\ Len(loops[l].recipients) = NumRecipients
    /\ loops[l].waits = NumRecipients - 1
    /\ \E k \in 1 .. Len(loops[l].attempts) : loops[l].attempts[k].result = "error"
    /\ \E k \in 1 .. Len(loops[l].attempts) : loops[l].attempts[k].result = "ok"

\* C29: after a successful send, in the start loop and in the resume loop, the
\* campaign state the loop saves has the recipient's address as the last of
\* sentEmails, holds every address the loop has sent to, and has
\* Len(sentEmails) <= currentIndex <= totalRecipients.
C29_ProgressAdvancedOnSuccess ==
  \A l \in 1 .. Len(loops) :
    (loops[l].pc = "store" /\ loops[l].result = "ok") =>
      LET cs == loops[l].campaignState[1]
      IN  /\ Len(cs.sentEmails) > 0
          /\ cs.sentEmails[Len(cs.sentEmails)] = loops[l].recipients[loops[l].i].email
          /\ \A k \in 1 .. Len(loops[l].attempts) :
               loops[l].attempts[k].result = "ok" =>
                 \E j \in 1 .. Len(cs.sentEmails) :
                   cs.sentEmails[j] = loops[l].attempts[k].to
          /\ Len(cs.sentEmails) <= cs.currentIndex
          /\ cs.currentIndex <= cs.totalRecipients

\* C30: once the iteration for a recipient is over and no store call of it
\* failed, the recipient's row in the loop's tab is no longer pending; with a
\* single loop at work it carries the outcome: SENT, or FAILED with the error.
C30_RowReflectsOutcome ==
  \A l \in 1 .. Len(loops) :
    \A k \in 1 .. Len(loops[l].attempts) :
      ((k < loops[l].i \/ loops[l].pc \in {"rwait", "done"})
       /\ k \notin loops[l].storeErrors) =>
        LET rows == getRowsFromSheet(sheet, loops[l].sheetName)
            mine == SelectSeq(rows, LAMBDA r : r.email = loops[l].attempts[k].to)
        IN  /\ Len(mine) > 0
            /\ mine[1].sendStatus # ""
            /\ Len(loops) = 1 => mine[1].sendStatus = RowStatus(loops[l].attempts[k].result)

\* A duration of h hours, in ms.
HoursMs(h) == h * MinutesPerHour * 60 * 1000

\* C27 as stated: for every clock time inside the quiet window,
\* getMsUntilQuietHoursEnd returns a strictly positive duration of at most 11
\* hours, after which the local clock shows 08:00, a time at which isQuietHours
\* is false.
C27_WaitAtMostElevenHours ==
  (call.returned /\ isQuietHours(getHours(call.minute))) =>
    /\ call.ms > 0
    /\ call.ms <= HoursMs(11)
    /\ LocalAfter(call.minute, call.ms, call.setBack) = At(8, 0)
    /\ ~isQuietHours(getHours(LocalAfter(call.minute, call.ms, call.setBack)))

\* C27 amended: the duration is strictly positive and at most 12 hours, at
\* most 11 hours unless the local clock is set back on the way (the night
\* daylight saving ends); after it the local clock shows 08:00, where
\* isQuietHours is false.
C27_WaitUntilNextEight ==
  (call.returned /\ isQuietHours(getHours(call.minute))) =>
    /\ call.ms > 0
    /\ call.ms <= HoursMs(12)
    /\ call.setBack <= 0 => call.ms <= HoursMs(11)
    /\ LocalAfter(call.minute, call.ms, call.setBack) = At(8, 0)
    /\ ~isQuietHours(getHours(LocalAfter(call.minute, call.ms, call.setBack)))

\* The call at 21:00 of the evening before daylight saving ends has returned
\* 12 hours.
C27_Witness ==
  /\ call.returned
  /\ call.minute = At(21, 0)
  /\ call.setBack = MinutesPerHour
  /\ call.ms = HoursMs(12)

C21_WrapIsIdempotent ==
  call.passes = MaxPasses => call.html = call.before

\* C22: the opt-out link is not itself click-tracked: in every message rendered
\* with an opt-out language of de or en, the footer's unsubscribe link still
\* points directly at the unsubscribe page, with the recipient's URL-encoded
\* email and the encoded list token, and not at the click-tracking endpoint.
C22_OptOutLinkNotTracked ==
  (call.returned /\ HasFooter(call.optOutLang)) =>
    \E k \in 1 .. Len(call.html) :
      call.html[k] = FooterLink(call.optOutLang, call.email, SheetNameOf(listsFile))

\* The pieces of `part`, in order and next to each other, in `value`.
Contains(value, part) ==
  \E j \in 1 .. (Len(value) - Len(part) + 1) :
    SubSeq(value, j, j + Len(part) - 1) = part

\* The open-tracking images of a message.
PixelsOf(html) ==
  {k \in 1 .. Len(html) :
     /\ html[k].t = "tag" /\ html[k].s = "img"
     /\ \E j \in 1 .. Len(html[k].attrs) :
          html[k].attrs[j].key = "src" /\ Contains(html[k].attrs[j].value, <<TrackEndpoint>>)}

EncodedEmailParam == <<"?e=">> \o EncodePieces(call.email)

HelloWorld ==
  /\ call.content = <<Txt("Hello"), Newline, Txt("World")>>
  /\ call.contentType = "text"
  /\ call.optOutLang = "en"
  /\ call.email = <<"bob", "@", "x.com">>

\* C23: render order is body, then opt-out footer (present iff the language is
\* de or en), then link wrapping, then the pixel: in every rendered message the
\* pixel is the last element, occurs once, carries the recipient's URL-encoded
\* email and is as it was appended; the body comes first (only its links are
\* rewritten) and the footer after it; "Hello\nWorld", en, bob@x.com yields
\* Hello<br>World, the English footer with e=bob%40x.com, then the pixel.
C23_RenderOrder ==
  call.returned =>
    LET html == call.html
        body == call.body
        footers == {k \in 1 .. Len(html) : html[k] = FooterDiv}
    IN  /\ html # <<>>
        /\ PixelsOf(html) = {Len(html)}
        /\ html[Len(html)] = trackingPixel(call.email, SheetNameOf(listsFile))
        /\ Contains(html[Len(html)].attrs[1].value, EncodedEmailParam)
        /\ (footers # {}) <=> (call.optOutLang \in {"de", "en"})
        /\ Len(html) > Len(body)
        /\ \A k \in 1 .. Len(body) : html[k] = body[k] \/ IsLinkStart(body[k])
        /\ \A k \in footers : Len(body) < k /\ k < Len(html)
        /\ HelloWorld =>
             /\ SubSeq(html, 2, 4) = <<Txt("Hello"), Br, Txt("World")>>
             /\ \E k \in 5 .. (Len(html) - 1) :
                  /\ html[k - 1] = FooterSentence("en")
                  /\ html[k].s = "a"
                  /\ Contains(html[k].attrs[1].value, <<"?e=", "bob", "%40", "x.com">>)
             /\ Contains(html[Len(html)].attrs[1].value, <<"?e=", "bob", "%40", "x.com">>)

C23_Witness == call.returned /\ call.kind = "send" /\ HelloWorld

\* The tags a text template may carry into the message unescaped.
AllowListed(tok) == tok.s \in {"img", "a", "/a", "b", "/b", "i", "/i"}

\* C24: for contentType text every < and > outside the allow-listed tags img,
\* a, b, i is escaped in the body (so no other tag of the template is a tag of
\* the body; the line breaks are the renderer's own), and for contentType html
\* the content is the body, unchanged.
C24_TextBodyIsEscaped ==
  call.returned =>
    /\ call.contentType = "html" => call.body = call.content
    /\ call.contentType = "text" =>
         \A k \in 2 .. (Len(call.body) - 1) :
           call.body[k].t = "tag" => (AllowListed(call.body[k]) \/ call.body[k] = Br)

\* C31: one CampaignState exists and a new campaign overwrites the old: the
\* campaignId of the persisted state changes only when POST /api/send starts a
\* campaign, and then to that campaign's id; no write of the loop of an
\* earlier campaign puts that campaign's state back.
C31_StateOfLatestCampaign ==
  [][(stateFile # <<>> /\ stateFile' # <<>>
        /\ stateFile'[1].campaignId # stateFile[1].campaignId)
       => (Len(loops') = Len(loops) + 1 /\ stateFile'[1].campaignId = Len(loops'))]_vars

\* C33: a template is immutable for a running campaign: whatever PUT and
\* DELETE /api/templates/:id do to the templates file while a loop runs or is
\* suspended, every message of that loop is made from the template as the
\* handler found it when the loop was launched.
C33_TemplateImmutableForLoop ==
  \A l \in 1 .. Len(loops) :
    \A k \in 1 .. Len(loops[l].attempts) :
      loops[l].attempts[k].content = loops[l].template[1].content

\* A message made from the template as launched, after the template was edited
\* (the edit came when updatedAt attempts were made, one more may have been
\* under way).
C33_Witness ==
  /\ Len(loops) = 1
  /\ templatesFile # <<>>
  /\ templatesFile[1].content = "edited"
  /\ \E k \in 1 .. Len(loops[1].attempts) :
       /\ k > templatesFile[1].updatedAt + 1
       /\ loops[1].attempts[k].result = "ok"
       /\ loops[1].attempts[k].content = "body"

\* C34: listPending returns, in storage order, exactly the rows that have an
\* email, no send status, no sent timestamp and no unsubscribed mark; a row
\* whose status is FAILED: <reason> is not among them.
C34_PendingRowsExactly ==
  call.returned =>
    LET rows == call.rows
        pending == call.pending
        open == {k \in 1 .. Len(rows) :
                   /\ rows[k].email # 0 /\ rows[k].sendStatus = ""
                   /\ rows[k].sentAt = "" /\ rows[k].unsubscribed = ""}
    IN  /\ {pending[j].rowIndex : j \in 1 .. Len(pending)} = {k + 1 : k \in open}
        /\ \A j \in 1 .. Len(pending) :
             /\ pending[j].email = rows[pending[j].rowIndex - 1].email
             /\ pending[j].sendStatus = "" /\ pending[j].sentAt = ""
             /\ pending[j].unsubscribed = ""
        /\ \A i, j \in 1 .. Len(pending) : i < j => pending[i].rowIndex < pending[j].rowIndex
        /\ \A k \in 1 .. Len(rows) :
             rows[k].sendStatus = "FAILED: smtp error" =>
               \A j \in 1 .. Len(pending) : pending[j].rowIndex # k + 1

\* The first row is recorded as failed and not unsubscribed, the second is open.
C34_Witness ==
  /\ call.returned
  /\ call.rows[1].email # 0 /\ call.rows[1].sendStatus = "FAILED: smtp error"
  /\ call.rows[1].unsubscribed = ""
  /\ Len(call.pending) = 1 /\ call.pending[1].rowIndex = 3

\* C35: when a recipient unsubscribes, the unsubscribe is recorded in the
\* Recipient Store under the sheet tab of the list that contains the
\* recipient, so that the pending rows of that tab, which a resume sends to, no
\* longer include the recipient (whenever the store was written at all).
C35_UnsubscribeRecordedInListTab ==
  \A email \in Emails :
    LET tab == SheetNameOf(listsFile)
        marked(name) == \E k \in 1 .. Len(sheet[name]) :
                          sheet[name][k].email = email /\ sheet[name][k].unsubscribed # ""
        pending == getUnsentFromSheet(sheet, tab)
    IN  (IsUnsubscribed(listsFile, email) /\ marked(DefaultSheet)) =>
          /\ marked(tab)
          /\ \A j \in 1 .. Len(pending) : pending[j].email # email

\* C36: in every complete event, of a started campaign and of a resumed one,
\* sent + failed = total, total being the number of recipients of the pass
\* that emitted the event.
C36_CompleteEventAddsUp ==
  \A l \in 1 .. Len(loops) :
    \A k \in 1 .. Len(loops[l].complete) :
      LET evt == loops[l].complete[k]
      IN  /\ evt.total = Len(loops[l].recipients)
          /\ evt.sent + evt.failed = evt.total

\* The links of a message, in order.
LinksOf(html) == SelectSeq(html, LAMBDA tok : tok.t = "tag" /\ tok.s = "a")

\* C37: for the same template, recipient and list the resume loop renders the
\* same message as the start loop: the same body (for text templates the
\* allow-listed tags are taken out before the newline conversion and put back
\* unchanged), the same links, the footer's among them, and the same pixel.
C37_ResumeRendersAsStart ==
  call.returned =>
    LET other == IF call.kind = "send" THEN "resume" ELSE "send"
        theirs == Render(call.content, call.contentType, call.optOutLang, call.email,
                         SheetNameOf(listsFile), other)
    IN  /\ call.body = BodyOf(call.content, call.contentType, other)
        /\ LinksOf(call.html) = LinksOf(theirs)
        /\ call.html[Len(call.html)] = theirs[Len(theirs)]

\* The rows of the tab the CLI sender reads, by rowIndex.
CliRow(rowIndex) == sheet[DefaultSheet][rowIndex - 1]

\* C38: the CLI sender never selects an unsubscribed recipient: no row it
\* sends to has its unsubscribed column set.
C38_CliSkipsUnsubscribed ==
  call.pc \in {"sending", "marking", "sleep", "exit"} =>
    \A k \in 1 .. Len(call.attempted) : CliRow(call.attempted[k]).unsubscribed = ""

\* The sends one run of the CLI sender may make, by its arguments and the
\* number of pending rows it counted at its start.
CliAllowance ==
  CASE call.args.mode = "single" -> 1
    [] call.args.mode = "count" ->
         IF call.args.count < call.stats[1].pending THEN call.args.count
         ELSE call.stats[1].pending
    [] call.args.mode = "all" -> call.stats[1].pending

CliRunIsBounded ==
  call.pc # "start" =>
    /\ Len(call.attempted) <= CliAllowance
    /\ \A j, k \in 1 .. Len(call.attempted) :
         j # k => call.attempted[j] # call.attempted[k]
    /\ \A k \in 1 .. (Len(call.attempted) - 1) :
         CliRow(call.attempted[k]).sendStatus \in {"SENT", RowStatus("error")}
    /\ (call.pc \in {"sleep", "exit"} /\ call.ended # "exit 1") =>
         \A k \in 1 .. Len(call.attempted) :
           CliRow(call.attempted[k]).sendStatus \in {"SENT", RowStatus("error")}

\* C39: in one run the CLI sender makes at most maxToSend send attempts (1 by
\* default, min(N, pending) with --count N, the pending rows with --all), each
\* to a distinct row; every attempted row is marked SENT or FAILED before the
\* next row is selected; and the run terminates.
C39_CliRunBoundedAndTerminates ==
  [](CliRunIsBounded) /\ <>(call.pc = "exit")

\* A run with --all over three pending rows that attempted all three, one of
\* them failing, and returned.
C39_Witness ==
  /\ call.pc = "exit" /\ call.ended = "returned"
  /\ call.args.mode = "all"
  /\ Len(call.attempted) = NumRecipients
  /\ call.failedCount >= 1 /\ call.sentCount >= 1

\* The rows of email_list_test that have an email, by what column B holds.
CliRowsWith(statuses) ==
  {k \in 1 .. Len(sheet[DefaultSheet]) :
     /\ sheet[DefaultSheet][k].email # 0
     /\ sheet[DefaultSheet][k].sendStatus \in statuses}

\* C40: getStats partitions the rows that have an email: in a sheet content
\* reached through markSent and markFailed (here: the one a run that marked at
\* least one row reads at its end), total = sent + failed + pending, every row
\* marked by markFailed is counted in failed, and pending is the number of
\* rows with no send status.
C40_GetStatsPartitions ==
  (call.finalStats # <<>> /\ call.sentCount + call.failedCount >= 1) =>
    LET stats == call.finalStats[1]
    IN  /\ stats.total = stats.sent + stats.failed + stats.pending
        /\ stats.failed = Cardinality(CliRowsWith({RowStatus("error")}))
        /\ stats.pending = Cardinality(CliRowsWith({""}))

\* Whether event b may come next after event a in a loop over n recipients.
EventFollows(a, b, n) ==
  CASE a.type = "none" ->
         \/ b.type \in {"paused", "sending"} /\ b.index = 1
         \/ b.type = "complete" /\ n = 0
    [] a.type = "paused" -> b.type = "resumed" /\ b.index = a.index
    [] a.type = "resumed" -> b.type = "sending" /\ b.index = a.index
    [] a.type = "sending" -> b.type \in {"sent", "failed"} /\ b.index = a.index
    [] a.type \in {"sent", "failed"} ->
         \/ b.type \in {"paused", "sending"} /\ b.index = a.index + 1 /\ a.index < n
         \/ b.type = "complete" /\ a.index = n
    [] OTHER -> FALSE

\* C32: the progress events of one loop are ordered per recipient: "sending"
\* for recipient i is followed by exactly one "sent" or "failed" for i before
\* any event for recipient i+1; "paused" is followed by "resumed" before the
\* next "sending"; "complete" is emitted once, after the last recipient's
\* "sent"/"failed" and with the status complete already in the state file; a
\* loop that has ended has emitted it.
C32_EventsOrdered ==
  \A l \in 1 .. Len(loops) :
    LET L == loops[l]
        ev == L.events
    IN  /\ \A k \in 1 .. (Len(ev) - 1) : EventFollows(ev[k], ev[k + 1], Len(L.recipients))
        /\ \A k \in 1 .. Len(ev) : ev[k].type = "complete" => ev[k].saved = "complete"
        /\ L.pc = "done" => ev[Len(ev)].type = "complete"
        /\ L.pc = "qwait" => ev[Len(ev)].type = "paused"
        /\ L.pc = "sending" => ev[Len(ev)].type = "sending"

\* A loop over two or more recipients that paused before its last recipient,
\* resumed, sent to it and emitted "complete".
C32_Witness ==
  \E l \in 1 .. Len(loops) :
    /\ loops[l].pc = "done"
    /\ Len(loops[l].recipients) >= 2
    /\ loops[l].checkedQuiet
    /\ loops[l].events[Len(loops[l].events)].type = "complete"
    /\ \E k \in 1 .. Len(loops[l].events) :
         loops[l].events[k].type = "sent" /\ loops[l].events[k].index = Len(loops[l].recipients)

====
